---------------------------- MODULE Spec2Model ----------------------------
(***************************************************************************)
(* Vector indexes of bustub_vector: the IVFFlat index                      *)
(* (src/src/storage/index/ivfflat_index.cpp), the HNSW index               *)
(* (src/src/storage/index/hnsw_index.cpp) and the distance kernel          *)
(* ComputeDistance (src/unnamed/part_005).                                 *)
(*                                                                         *)
(* A C++ double is modelled as an exact extended rational [n, d]:          *)
(* d > 0 is the finite value n/d in lowest terms, d = 0 is +inf (n = 1),   *)
(* -inf (n = -1) or NaN (n = 0).  The result of ComputeDistance is a       *)
(* "distance value" [k, n, d]: k = "sq" stands for sgn(n)*sqrt(|n|/d) and  *)
(* k = "om" for 1 - sgn(n)*sqrt(|n|/d), so that sqrt never has to be       *)
(* evaluated and every comparison the code makes is decided exactly.       *)
(* Rounding is not modelled: the vectors of the specifications are chosen  *)
(* so that exact and double arithmetic decide every comparison alike.      *)
(***************************************************************************)
EXTENDS Integers, Sequences, FiniteSets, TLC

(***************************************************************************)
(* Extended rationals (double)                                             *)
(***************************************************************************)
\* the element of a one-element set; Only({e : x \in {v}}) is e with x bound
\* to the value of v, which is computed once
Only(S) == CHOOSE x \in S : TRUE

Abs(x) == IF x < 0 THEN -x ELSE x

Sgn(x) == IF x < 0 THEN -1 ELSE IF x > 0 THEN 1 ELSE 0

RECURSIVE Gcd(_, _)
Gcd(a, b) == IF b = 0 THEN a ELSE Gcd(b, a % b)

\* the double n/d (d >= 0), in lowest terms; d = 0 gives +inf, -inf or NaN
Dbl(num, den) ==
  Only({IF d = 0 THEN [n |-> Sgn(n), d |-> 0]
        ELSE Only({[n |-> n \div g, d |-> d \div g] : g \in {Gcd(Abs(n), d)}}) :
        n \in {num}, d \in {den}})

DInt(i) == [n |-> i, d |-> 1]

DNaN == [n |-> 0, d |-> 0]

IsNaN(x) == x.d = 0 /\ x.n = 0

IsInf(x) == x.d = 0 /\ x.n # 0

IsFinite(x) == x.d > 0

\* a + b
DAdd(x, y) ==
  Only({IF IsNaN(a) \/ IsNaN(b) THEN DNaN
        ELSE IF IsInf(a) /\ IsInf(b) THEN (IF a.n = b.n THEN a ELSE DNaN)
        ELSE IF IsInf(a) THEN a
        ELSE IF IsInf(b) THEN b
        ELSE Only({Dbl(a.n * (b.d \div g) + b.n * (a.d \div g), (a.d \div g) * b.d) :
                   g \in {Gcd(a.d, b.d)}}) :
        a \in {x}, b \in {y}})

DNeg(a) == [n |-> -a.n, d |-> a.d]

DSub(a, b) == DAdd(a, DNeg(b))

\* a * b
DMul(x, y) ==
  Only({IF IsNaN(a) \/ IsNaN(b) THEN DNaN
        ELSE IF IsInf(a) \/ IsInf(b)
             THEN (IF a.n = 0 \/ b.n = 0 THEN DNaN
                   ELSE [n |-> Sgn(a.n) * Sgn(b.n), d |-> 0])
        ELSE Dbl(a.n * b.n, a.d * b.d) :
        a \in {x}, b \in {y}})

\* a / c for a count c >= 0 (size_t converted to double): x/0 is +-inf, 0/0 is NaN
DDivCount(x, c) ==
  Only({IF IsNaN(a) THEN DNaN
        ELSE IF IsInf(a) THEN a
        ELSE IF c = 0 THEN [n |-> Sgn(a.n), d |-> 0]
        ELSE Dbl(a.n, a.d * c) :
        a \in {x}})

RECURSIVE FracLess(_, _, _, _)
\* n1/d1 < n2/d2 for d1, d2 > 0, by the continued fractions of the two sides
\* (no product is formed)
FracLess(n1, d1, n2, d2) ==
  LET q1 == n1 \div d1
      q2 == n2 \div d2
      r1 == n1 % d1
      r2 == n2 % d2
  IN IF q1 # q2 THEN q1 < q2
     ELSE IF r2 = 0 THEN FALSE
     ELSE IF r1 = 0 THEN TRUE
     ELSE FracLess(d2, r2, d1, r1)

\* a < b on doubles: false as soon as one side is NaN
DLess(x, y) ==
  Only({IF IsNaN(a) \/ IsNaN(b) THEN FALSE
        ELSE IF IsInf(a) THEN a.n < 0 /\ ~(IsInf(b) /\ b.n < 0)
        ELSE IF IsInf(b) THEN b.n > 0
        ELSE FracLess(a.n, a.d, b.n, b.d) :
        a \in {x}, b \in {y}})

RECURSIVE ISqrtIn(_, _, _)
\* floor(sqrt(x)) given lo * lo <= x < hi * hi
ISqrtIn(x, lo, hi) ==
  IF hi - lo <= 1 THEN lo
  ELSE LET mid == (lo + hi) \div 2
       IN IF mid * mid <= x THEN ISqrtIn(x, mid, hi) ELSE ISqrtIn(x, lo, mid)

\* floor(sqrt(x)) for an integer x >= 0
ISqrt(x) == ISqrtIn(x, 0, IF x < 46340 THEN x + 1 ELSE 46341)


(***************************************************************************)
(* Distance kernel: ComputeDistance (src/unnamed/part_005)                 *)
(***************************************************************************)
\* VectorExpressionType
L2Dist == "L2Dist"

InnerProduct == "InnerProduct"

CosineSimilarity == "CosineSimilarity"

VectorExpressionType == {L2Dist, InnerProduct, CosineSimilarity}

\* a vector of doubles from integer coordinates given in tenths
Vec(x10, y10) == <<Dbl(x10, 10), Dbl(y10, 10)>>

RECURSIVE SumSqDiff(_, _, _)
\* sum of pow(left[i] - right[i], 2) over i = 1..k
SumSqDiff(left, right, k) ==
  IF k = 0 THEN DInt(0)
  ELSE Only({DAdd(SumSqDiff(left, right, k - 1), DMul(df, df)) :
             df \in {DSub(left[k], right[k])}})

RECURSIVE Dot(_, _, _)
\* sum of left[i] * right[i] over i = 1..k
Dot(left, right, k) ==
  IF k = 0 THEN DInt(0)
  ELSE DAdd(Dot(left, right, k - 1), DMul(left[k], right[k]))

\* the distance value sgn(x) * sqrt(|x|) of an extended rational x
SqOf(y) == Only({[k |-> "sq", n |-> x.n, d |-> x.d] : x \in {y}})

\* the distance value x of an extended rational x, written sgn(x)*sqrt(x*x)
PlainOf(y) == Only({[k |-> "sq", n |-> x.n * Abs(x.n), d |-> x.d * x.d] : x \in {y}})

\* 1 - dot / sqrt(q) for rationals dot and q >= 0; 0/0 is NaN
OneMinusRatio(dt, qt) ==
  Only({IF IsNaN(dot) \/ IsNaN(q) THEN [k |-> "om", n |-> 0, d |-> 0]
        ELSE IF q.n = 0 THEN [k |-> "om", n |-> Sgn(dot.n), d |-> 0]
        ELSE Only({[k |-> "om", n |-> r.n, d |-> r.d] :
                   r \in {Dbl(Sgn(dot.n) * dot.n * dot.n * q.d, dot.d * dot.d * q.n)}}) :
        dot \in {dt}, q \in {qt}})

ComputeDistance(left, right, dist_fn) ==
  CASE dist_fn = L2Dist -> SqOf(SumSqDiff(left, right, Len(left)))
    [] dist_fn = InnerProduct -> PlainOf(DNeg(Dot(left, right, Len(left))))
    [] dist_fn = CosineSimilarity ->
         OneMinusRatio(Dot(left, right, Len(left)),
                       DMul(Dot(left, left, Len(left)), Dot(right, right, Len(right))))

\* std::numeric_limits<double>::min() and ::max()
DblMin == [k |-> "dblmin", n |-> 0, d |-> 1]

DblMax == [k |-> "dblmax", n |-> 0, d |-> 1]

VIsNaN(v) == v.k \in {"sq", "om"} /\ v.d = 0 /\ v.n = 0

Core(v) == [n |-> v.n, d |-> v.d]

\* v = +inf
VIsPInf(v) ==
  \/ v.k = "sq" /\ v.d = 0 /\ v.n > 0
  \/ v.k = "om" /\ v.d = 0 /\ v.n < 0

\* v > 0 for a distance value that is not NaN
VPos(v) ==
  CASE v.k = "sq" -> v.n > 0
    [] v.k = "om" -> DLess(Core(v), DInt(1))
    [] OTHER -> TRUE

\* a < b on the doubles two distance values stand for
VLess(x, y) ==
  Only({IF VIsNaN(a) \/ VIsNaN(b) THEN FALSE
        ELSE IF a.k = "dblmin" THEN b.k = "dblmax" \/ (b.k # "dblmin" /\ VPos(b))
        ELSE IF a.k = "dblmax" THEN b.k # "dblmax" /\ b.k # "dblmin" /\ VIsPInf(b)
        ELSE IF b.k = "dblmin" THEN ~VPos(a)
        ELSE IF b.k = "dblmax" THEN ~VIsPInf(a)
        ELSE IF a.k = "sq" THEN DLess(Core(a), Core(b))
        ELSE DLess(Core(b), Core(a)) :
        a \in {x}, b \in {y}})

\* std::min(a, b): b if b < a, else a
VMin(a, b) == IF VLess(b, a) THEN b ELSE a

\* (double)i < v for an int i and a distance value v = sgn(n)*sqrt(|n|/d)
IntLessDist(i, v) ==
  IF VIsNaN(v) THEN FALSE
  ELSE IF v.d = 0 THEN v.n > 0
  ELSE IF v.n >= 0
       THEN i < 0 \/ (i <= ISqrt(v.n \div v.d) /\ i * i * v.d < v.n)
  ELSE i < 0 /\ (i < -ISqrt((-v.n) \div v.d) - 1 \/ i * i * v.d > -v.n)

\* static_cast<int>(v) of a distance value v = sgn(n)*sqrt(|n|/d): truncation
\* toward zero; the conversion of an infinite v is undefined behaviour and
\* yields int_of_inf, the value the platform's conversion instruction gives
IntOfDist(v, int_of_inf) ==
  IF v.d = 0 THEN int_of_inf
  ELSE Sgn(v.n) * ISqrt(Abs(v.n) \div v.d)


(***************************************************************************)
(* The comparator of SortExecutor and TopNExecutor                         *)
(* (src/src/execution/sort_executor.cpp, topn_executor.cpp)                *)
(*                                                                         *)
(* A tuple is the sequence of its column values, an order-by expression a  *)
(* column of the child's schema, and its Value read with GetAs<double>()   *)
(* the double in that column.  The two lambdas capture plan_ by reference. *)
(***************************************************************************)
VARIABLES
  plan_,              \* the plan node of the two executors: order_bys_ and n_
  child_,             \* the (rid, tuple) pairs the child executor emits
  topn_,              \* TopNExecutor: tuples, iter_, limit
  sort_,              \* SortExecutor: tuples, iter_
  ins_                \* InsertExecutor, its child, table heap and indexes

exec_vars == <<plan_, child_, topn_, sort_, ins_>>

OrderByType == {"DEFAULT", "ASC", "DESC"}

\* expr->Evaluate(&tuple, schema).GetAs<double>() for the column expr
Evaluate(expr, tuple) == tuple[expr + 1]

RECURSIVE OrderByLessFrom(_, _, _, _)
\* the lambda's for loop over order_bys[i..]
OrderByLessFrom(tuple_a, tuple_b, order_bys, i) ==
  IF i > Len(order_bys) THEN FALSE
  ELSE Only({IF DLess(val_a, val_b) THEN order_bys[i].type \in {"DEFAULT", "ASC"}
             ELSE IF DLess(val_b, val_a) THEN order_bys[i].type = "DESC"
             ELSE OrderByLessFrom(tuple_a, tuple_b, order_bys, i + 1) :
             val_a \in {Evaluate(order_bys[i].expr, tuple_a)},
             val_b \in {Evaluate(order_bys[i].expr, tuple_b)}})

\* the lambda of SortExecutor::Init and TopNExecutor::Init on two
\* (rid, tuple) pairs
OrderByLess(a, b) == OrderByLessFrom(a.second, b.second, plan_.order_bys_, 1)

(***************************************************************************)
(* IVFFlat index (src/src/storage/index/ivfflat_index.cpp)                 *)
(*                                                                         *)
(* Indexes and counts keep the code's 0-based values; element i of a C++   *)
(* vector is element i + 1 of the sequence that models it.  FindCentroid   *)
(* returns min_index = -1 converted to size_t when no centroid is taken;   *)
(* the model keeps -1 for that out-of-range index.                         *)
(***************************************************************************)
\* BuildIndex: const size_t max_iterations = 500
max_iterations == 500

\* The values static_cast<int>(+inf) produces: INT_MIN (x86 cvttsd2si) or
\* INT_MAX (a saturating conversion)
INT_MAX == 2147483647

INT_MIN == -INT_MAX - 1

IntOfInfOutcomes == {INT_MIN, INT_MAX}

\* What an access to element size_t(-1) of a std::vector does: the process
\* is killed ("crash"), or the access lands outside the index and the index
\* is as if the access had not been made ("stray")
OobOutcomes == {"crash", "stray"}

\* VectorAdd: a[i] += b[i]
VectorAdd(a, b) == [i \in DOMAIN a |-> DAdd(a[i], b[i])]

\* VectorScalarDiv: y /= x for every y of a, x a count converted to double
VectorScalarDiv(a, x) == [i \in DOMAIN a |-> DDivCount(a[i], x)]

RECURSIVE FindCentroidLoop(_, _, _, _, _, _, _)
FindCentroidLoop(vec, centroids, dist_fn, int_of_inf, i, min_index, min_distance) ==
  IF i >= Len(centroids) THEN min_index
  ELSE Only({IF IntLessDist(md, dv)
             THEN Only({FindCentroidLoop(vec, centroids, dist_fn, int_of_inf, i + 1, i, nd) :
                        nd \in {IntOfDist(dv, int_of_inf)}})
             ELSE FindCentroidLoop(vec, centroids, dist_fn, int_of_inf, i + 1,
                                   min_index, md) :
             dv \in {ComputeDistance(vec, centroids[i + 1], dist_fn)},
             md \in {min_distance}})

\* FindCentroid: int min_index = -1; int min_distance = 0; the loop
FindCentroid(vec, centroids, dist_fn, int_of_inf) ==
  FindCentroidLoop(vec, centroids, dist_fn, int_of_inf, 0, -1, 0)

RECURSIVE FindCentroidsAssign(_, _, _, _, _)
\* the first loop of FindCentroids on data[k..]: st = [res, count, oob]
FindCentroidsAssign(data, k, st, dist_fn, int_of_inf) ==
  IF k > Len(data) THEN st
  ELSE Only({Only({FindCentroidsAssign(data, k + 1, nst, dist_fn, int_of_inf) :
                   nst \in {IF index < 0
                            THEN [st EXCEPT !.oob = TRUE]
                            ELSE [st EXCEPT !.res[index + 1] = VectorAdd(@, data[k].vec),
                                            !.count[index + 1] = @ + 1]}}) :
             index \in {FindCentroid(data[k].vec, st.res, dist_fn, int_of_inf)}})

\* FindCentroids: [res, oob]; oob: res[size_t(-1)] was accessed
FindCentroids(data, centroids, dist_fn, int_of_inf) ==
  Only({[res |-> [j \in DOMAIN centroids |->
                    IF j - 1 = 0 THEN st.res[j]
                    ELSE VectorScalarDiv(st.res[j], st.count[j])],
         oob |-> st.oob] :
        st \in {FindCentroidsAssign(data, 1,
                  [res |-> centroids, count |-> [i \in DOMAIN centroids |-> 0],
                   oob |-> FALSE], dist_fn, int_of_inf)}})

\* a < b as std::sort's comparator sees two pairs: mode "pair" is operator<
\* of std::pair on (distance, index or rid), mode "first" compares the
\* distances, mode "order_by" is SortExecutor's lambda
PairLess(a, b, mode) ==
  IF mode = "pair"
  THEN VLess(a.first, b.first) \/ (~VLess(b.first, a.first) /\ a.second < b.second)
  ELSE IF mode = "first" THEN VLess(a.first, b.first)
  ELSE OrderByLess(a, b)

RECURSIVE LinearInsertPos(_, _, _, _)
\* __unguarded_linear_insert: the position after which val is put
LinearInsertPos(prefix, val, j, mode) ==
  IF j >= 1 /\ PairLess(val, prefix[j], mode)
  THEN LinearInsertPos(prefix, val, j - 1, mode)
  ELSE j

RECURSIVE InsertionSortFrom(_, _, _)
\* std::sort on at most 16 elements: __insertion_sort from element i on
InsertionSortFrom(s, i, mode) ==
  IF i > Len(s) THEN s
  ELSE Only({Only({InsertionSortFrom(placed, i + 1, mode) :
                   placed \in {SubSeq(s, 1, j) \o <<s[i]>> \o SubSeq(s, j + 1, i - 1)
                                 \o SubSeq(s, i + 1, Len(s))}}) :
             j \in {IF PairLess(s[i], s[1], mode) THEN 0
                    ELSE LinearInsertPos(s, s[i], i - 1, mode)}})

StdSort(s, mode) == IF Len(s) <= 1 THEN s ELSE InsertionSortFrom(s, 2, mode)

\* FindNearestCentroids: the 0-based indexes of the num_centroids centroids
\* that come first when the (distance, index) pairs are sorted
FindNearestCentroids(centroids, base_vector, num_centroids) ==
  Only({[i \in 1..(IF num_centroids < Len(sorted) THEN num_centroids ELSE Len(sorted))
           |-> sorted[i].second] :
        sorted \in {StdSort([i \in DOMAIN centroids |->
                               [first |-> ComputeDistance(base_vector, centroids[i], L2Dist),
                                second |-> i - 1]], "pair")}})

RECURSIVE Concat(_, _)
\* the concatenation of ss[k], ss[k+1], ...
Concat(ss, k) == IF k > Len(ss) THEN <<>> ELSE ss[k] \o Concat(ss, k + 1)

\* ScanVectorKey with a last loop that runs while i <= min(limit, size), one
\* RID too many: the code that the number of RIDs returned (C4) must tell
\* from the source
IvfScanVectorKeyOneMore(centroids, buckets, probe_lists, base_vector, limit) ==
  Only({Only({[i \in 1..(IF limit + 1 < Len(sorted) THEN limit + 1 ELSE Len(sorted))
                 |-> sorted[i].second] :
              sorted \in {StdSort(Concat(
                 [c \in DOMAIN nearest_centroids |->
                    [e \in DOMAIN buckets[nearest_centroids[c] + 1] |->
                       [first |-> ComputeDistance(base_vector,
                                    buckets[nearest_centroids[c] + 1][e].vec, L2Dist),
                        second |-> buckets[nearest_centroids[c] + 1][e].rid]]], 1),
                 "first")}}) :
        nearest_centroids \in {FindNearestCentroids(centroids, base_vector, probe_lists)}})

\* IVFFlatIndex::ScanVectorKey on an index with these centroids and buckets
IvfScanVectorKey(centroids, buckets, probe_lists, base_vector, limit) ==
  Only({Only({[i \in 1..(IF limit < Len(sorted) THEN limit ELSE Len(sorted))
                 |-> sorted[i].second] :
              sorted \in {StdSort(Concat(
                 [c \in DOMAIN nearest_centroids |->
                    [e \in DOMAIN buckets[nearest_centroids[c] + 1] |->
                       [first |-> ComputeDistance(base_vector,
                                    buckets[nearest_centroids[c] + 1][e].vec, L2Dist),
                        second |-> buckets[nearest_centroids[c] + 1][e].rid]]], 1),
                 "first")}}) :
        nearest_centroids \in {FindNearestCentroids(centroids, base_vector, probe_lists)}})

\* The number of Lloyd iterations the model computes before it gives up on an
\* input whose centroids have not reached a fixed point
MaxLloyd == 6

RECURSIVE Lloyd(_, _, _, _, _)
\* BuildIndex's loop of max_iterations calls of FindCentroids: [c, oob, done].
\* Once an iteration returns its argument every later one does too, so the
\* loop's result is known without running it to the end; done = FALSE when
\* neither that nor the end of the loop is met within MaxLloyd iterations.
Lloyd(data, centroids, iter, oob, int_of_inf) ==
  IF iter >= max_iterations THEN [c |-> centroids, oob |-> oob, done |-> TRUE]
  ELSE IF iter >= MaxLloyd THEN [c |-> centroids, oob |-> oob, done |-> FALSE]
  ELSE Only({IF r.res = centroids
             THEN [c |-> centroids, oob |-> oob \/ r.oob, done |-> TRUE]
             ELSE Only({Lloyd(data, r.res, iter + 1, noob, int_of_inf) :
                        noob \in {oob \/ r.oob}}) :
             r \in {FindCentroids(data, centroids, L2Dist, int_of_inf)}})

RECURSIVE AssignBuckets(_, _, _, _, _)
\* BuildIndex's last loop on data[k..]: st = [buckets, oob]
AssignBuckets(data, k, centroids, st, int_of_inf) ==
  IF k > Len(data) THEN st
  ELSE Only({Only({AssignBuckets(data, k + 1, centroids, nst, int_of_inf) :
                   nst \in {IF nearest_centroid_idx < 0
                            THEN [st EXCEPT !.oob = TRUE]
                            ELSE [st EXCEPT !.buckets[nearest_centroid_idx + 1] =
                                               Append(@, data[k])]}}) :
             nearest_centroid_idx \in
               {FindCentroid(data[k].vec, centroids, L2Dist, int_of_inf)}})

\* BuildIndex on initial_data with |initial_data| >= lists, RandomSample having
\* drawn the 0-based positions sample: [centroids, buckets, oob, done]
BuildResult(initial_data, lists, sample, int_of_inf) ==
  Only({Only({[centroids |-> l.c, buckets |-> a.buckets, oob |-> l.oob \/ a.oob,
                done |-> l.done] :
              a \in {AssignBuckets(initial_data, 1, l.c,
                       [buckets |-> [i \in 1..lists |-> <<>>], oob |-> FALSE],
                       int_of_inf)}}) :
        l \in {Lloyd(initial_data, [i \in 1..lists |-> initial_data[sample[i] + 1].vec],
                     0, FALSE, int_of_inf)}})

(***************************************************************************)
(* HNSW index (src/src/storage/index/hnsw_index.cpp)                       *)
(*                                                                         *)
(* Vertex ids keep the code's 0-based values.  A std::priority_queue is    *)
(* the sequence of its underlying std::vector, kept a heap by the          *)
(* library's push_heap and pop_heap; its elements are (distance, id)       *)
(* pairs [first, second].  A layer (struct NSW) is the record              *)
(* [in_vertices_, edges_, m_max_, dist_fn_]; edges_[v] of a vertex without *)
(* an entry is the empty list that operator[] creates.                     *)
(***************************************************************************)
\* largest number of vertices of an HNSW index with the L2 metric; with the
\* other metrics an index has up to MaxVertices - 1 vertices
MaxVertices == 6

\* largest level GenerateRandomLevel's formula yields for a new vertex
MaxLevel == 1

VertexIds == 0..(MaxVertices - 1)

\* the comparator of a priority queue: "cmp" is SelectNeighbors' lambda
\* (dist_left > dist_right), "CompareByDistance" orders by smaller distance,
\* "order_by" is TopNExecutor's lambda
HeapComp(a, b, mode) ==
  IF mode = "cmp" THEN VLess(b.first, a.first)
  ELSE IF mode = "CompareByDistance" THEN VLess(a.first, b.first)
  ELSE OrderByLess(a, b)

RECURSIVE PushHeap(_, _, _, _, _)
\* std::__push_heap(first, holeIndex, topIndex, value, comp)
PushHeap(h, holeIndex, topIndex, value, mode) ==
  IF holeIndex > topIndex /\ HeapComp(h[(holeIndex - 1) \div 2 + 1], value, mode)
  THEN Only({PushHeap(nh, (holeIndex - 1) \div 2, topIndex, value, mode) :
             nh \in {[h EXCEPT ![holeIndex + 1] = h[(holeIndex - 1) \div 2 + 1]]}})
  ELSE [h EXCEPT ![holeIndex + 1] = value]

RECURSIVE AdjustHeapDown(_, _, _, _)
\* the while loop of std::__adjust_heap: [h, holeIndex] when it ends
AdjustHeapDown(h, holeIndex, len, mode) ==
  IF holeIndex < (len - 1) \div 2
  THEN Only({Only({AdjustHeapDown(nh, secondChild, len, mode) :
                   nh \in {[h EXCEPT ![holeIndex + 1] = h[secondChild + 1]]}}) :
             secondChild \in {IF HeapComp(h[2 * (holeIndex + 1) + 1],
                                          h[2 * (holeIndex + 1)], mode)
                              THEN 2 * (holeIndex + 1) - 1
                              ELSE 2 * (holeIndex + 1)}})
  ELSE [h |-> h, holeIndex |-> holeIndex]

\* std::__adjust_heap(first, 0, len, value, comp)
AdjustHeap(h, len, value, mode) ==
  Only({IF len % 2 = 0 /\ r.holeIndex = (len - 2) \div 2
        THEN PushHeap([r.h EXCEPT ![r.holeIndex + 1] = r.h[2 * (r.holeIndex + 1)]],
                      2 * (r.holeIndex + 1) - 1, 0, value, mode)
        ELSE PushHeap(r.h, r.holeIndex, 0, value, mode) :
        r \in {AdjustHeapDown(h, 0, len, mode)}})

\* priority_queue::push: push_back, then push_heap
PqPush(h, value, mode) ==
  Only({PushHeap(Append(h, v), Len(h), 0, v, mode) : v \in {value}})

\* priority_queue::pop: pop_heap, then pop_back
PqPop(h, mode) ==
  IF Len(h) <= 1 THEN <<>>
  ELSE AdjustHeap(SubSeq(h, 1, Len(h) - 1), Len(h) - 1, h[Len(h)], mode)

RECURSIVE PqDrain(_, _)
\* the elements that top() and pop() yield until the queue is empty
PqDrain(h, mode) ==
  IF h = <<>> THEN <<>>
  ELSE <<h[1]>> \o Only({PqDrain(nh, mode) : nh \in {PqPop(h, mode)}})

RECURSIVE SelectNeighborsPush(_, _, _, _, _, _, _)
\* SelectNeighbors' loop over vertex_ids[i..]
SelectNeighborsPush(vec, vertex_ids, vertices, m, dist_fn, i, min_heap) ==
  IF i > Len(vertex_ids) THEN min_heap
  ELSE Only({Only({SelectNeighborsPush(vec, vertex_ids, vertices, m, dist_fn, i + 1, kept) :
                   kept \in {IF Len(pushed) > m THEN PqPop(pushed, "cmp") ELSE pushed}}) :
             pushed \in {PqPush(min_heap,
                           [first |-> ComputeDistance(vec, vertices[vertex_ids[i] + 1], dist_fn),
                            second |-> vertex_ids[i]], "cmp")}})

\* SelectNeighbors(vec, vertex_ids, vertices, m, dist_fn)
SelectNeighbors(vec, vertex_ids, vertices, m, dist_fn) ==
  Only({Only({[j \in DOMAIN nearest_neighbors |-> nearest_neighbors[j].second] :
              nearest_neighbors \in {PqDrain(min_heap, "cmp")}}) :
        min_heap \in {SelectNeighborsPush(vec, vertex_ids, vertices, m, dist_fn, 1, <<>>)}})

\* std::numeric_limits<double>::min() and ::max(), SearchLayer's initial
\* max_result_dist and min_candidate_dist; expanded is the history of the
\* while loop: candidate_queue as it was before each pop
SearchLayerStart ==
  [candidate_queue |-> <<>>, result_set |-> <<>>, visited |-> {},
   max_result_dist |-> DblMin, min_candidate_dist |-> DblMax, expanded |-> <<>>]

\* what SearchLayer does with a vertex it reaches at distance dist; in_loop
\* is TRUE in the greedy loop, where result_set.pop() runs when the set has
\* grown beyond limit, and FALSE for an entry point
SearchLayerVisit(st, vertex, dist, limit, in_loop) ==
  Only({Only({[candidate_queue |-> Append(st.candidate_queue, vertex),
               result_set |-> rs,
               visited |-> st.visited \cup {vertex},
               max_result_dist |->
                 IF Len(rs) = limit THEN rs[1].first ELSE st.max_result_dist,
               min_candidate_dist |-> VMin(st.min_candidate_dist, d),
               expanded |-> st.expanded] :
              rs \in {Only({IF in_loop /\ Len(pushed) > limit
                            THEN PqPop(pushed, "CompareByDistance")
                            ELSE pushed :
                            pushed \in {PqPush(st.result_set,
                                          [first |-> d, second |-> vertex],
                                          "CompareByDistance")}})}}) :
        d \in {dist}})

RECURSIVE SearchLayerSeed(_, _, _, _, _, _, _)
\* SearchLayer's loop over entry_points[i..]
SearchLayerSeed(layer, vertices, base_vector, limit, entry_points, i, st) ==
  IF i > Len(entry_points) THEN st
  ELSE Only({SearchLayerSeed(layer, vertices, base_vector, limit, entry_points, i + 1, nst) :
             nst \in {SearchLayerVisit(st, entry_points[i],
                        ComputeDistance(base_vector, vertices[entry_points[i] + 1],
                                        layer.dist_fn_),
                        limit, FALSE)}})

RECURSIVE SearchLayerNeighbors(_, _, _, _, _, _, _)
\* SearchLayer's loop over nearest_neighbors[i..] of the current vertex
SearchLayerNeighbors(layer, vertices, base_vector, limit, nearest_neighbors, i, st) ==
  IF i > Len(nearest_neighbors) THEN st
  ELSE IF nearest_neighbors[i] \in st.visited
  THEN SearchLayerNeighbors(layer, vertices, base_vector, limit, nearest_neighbors,
                            i + 1, st)
  ELSE Only({SearchLayerNeighbors(layer, vertices, base_vector, limit, nearest_neighbors,
                                  i + 1, nst) :
             nst \in {SearchLayerVisit(st, nearest_neighbors[i],
                        ComputeDistance(base_vector, vertices[nearest_neighbors[i] + 1],
                                        layer.dist_fn_),
                        limit, TRUE)}})

RECURSIVE SearchLayerLoop(_, _, _, _, _)
\* SearchLayer's while loop on candidate_queue
SearchLayerLoop(layer, vertices, base_vector, limit, st) ==
  IF st.candidate_queue = <<>> THEN st
  ELSE Only({Only({IF /\ Len(after.result_set) = limit
                      /\ VLess(after.max_result_dist, after.min_candidate_dist)
                   THEN after
                   ELSE SearchLayerLoop(layer, vertices, base_vector, limit, after) :
                   after \in {SearchLayerNeighbors(layer, vertices, base_vector, limit,
                                nearest_neighbors, 1,
                                [st EXCEPT !.candidate_queue = Tail(@),
                                           !.expanded = Append(@, st.candidate_queue)])}}) :
             nearest_neighbors \in
               {SelectNeighbors(base_vector, layer.edges_[Head(st.candidate_queue)],
                                vertices, limit, layer.dist_fn_)}})

\* SearchLayer's queues and sets when its while loop has ended
SearchLayerRun(layer, vertices, base_vector, limit, entry_points) ==
  Only({SearchLayerLoop(layer, vertices, base_vector, limit, seeded) :
        seeded \in {SearchLayerSeed(layer, vertices, base_vector, limit, entry_points, 1,
                                    SearchLayerStart)}})

\* NSW::SearchLayer(base_vector, limit, entry_points) on layer, whose
\* vertices_ is vertices
SearchLayer(layer, vertices, base_vector, limit, entry_points) ==
  Only({Only({[j \in DOMAIN popped |-> popped[Len(popped) + 1 - j].second] :
              popped \in {PqDrain(searched.result_set, "CompareByDistance")}}) :
        searched \in {SearchLayerRun(layer, vertices, base_vector, limit, entry_points)}})

\* a layer without vertices: NSW{vertices, dist_fn, m_max}
NSW(dist_fn, m_max) ==
  [in_vertices_ |-> <<>>, edges_ |-> [v \in VertexIds |-> <<>>], m_max_ |-> m_max,
   dist_fn_ |-> dist_fn]

\* NSW::DefaultEntryPoint
DefaultEntryPoint(layer) == layer.in_vertices_[1]

\* NSW::AddVertex(vertex_id)
NswAddVertex(layer, vertex_id) == [layer EXCEPT !.in_vertices_ = Append(@, vertex_id)]

\* NSW::Connect(vertex_a, vertex_b)
Connect(layer, vertex_a, vertex_b) ==
  Only({[pushed_b EXCEPT !.edges_[vertex_b] = Append(@, vertex_a)] :
        pushed_b \in {[layer EXCEPT !.edges_[vertex_a] = Append(@, vertex_b)]}})

RECURSIVE ConnectNeighbors(_, _, _, _)
\* InsertVectorEntry: layer.Connect(vertex_id, neighbor) for neighbors[i..]
ConnectNeighbors(layer, vertex_id, neighbors, i) ==
  IF i > Len(neighbors) THEN layer
  ELSE Only({ConnectNeighbors(connected, vertex_id, neighbors, i + 1) :
             connected \in {Connect(layer, vertex_id, neighbors[i])}})

\* InsertVectorEntry without the loop that replaces the edges of a neighbor:
\* the code that the degree cap (C1) must tell from the source
ShrinkNeighborsSkipped(layer, vertices, neighbors, i, m_max, dist_fn) == layer

RECURSIVE ShrinkNeighbors(_, _, _, _, _, _)
\* InsertVectorEntry: the loop over neighbors[i..] that replaces the edges of
\* a neighbor that has more than m_max of them
ShrinkNeighbors(layer, vertices, neighbors, i, m_max, dist_fn) ==
  IF i > Len(neighbors) THEN layer
  ELSE IF Len(layer.edges_[neighbors[i]]) > m_max
  THEN Only({ShrinkNeighbors([layer EXCEPT !.edges_[neighbors[i]] = new_neighbors],
                             vertices, neighbors, i + 1, m_max, dist_fn) :
             new_neighbors \in
               {SelectNeighbors(vertices[neighbors[i] + 1], layer.edges_[neighbors[i]],
                                vertices, layer.m_max_, dist_fn)}})
  ELSE ShrinkNeighbors(layer, vertices, neighbors, i + 1, m_max, dist_fn)

\* InsertVectorEntry without its first for loop, so that the second one starts
\* at the top layer: the code that the frame of an insert (C26) must tell from
\* the source
InsertAboveSkipped(idx, key, level, target_level, entry_points) ==
  [level |-> level, entry_points |-> entry_points]

RECURSIVE InsertAbove(_, _, _, _, _)
\* InsertVectorEntry's first for loop, from level down to target_level + 1:
\* [level, entry_points] when it ends
InsertAbove(idx, key, level, target_level, entry_points) ==
  IF level > target_level
  THEN Only({Only({InsertAbove(idx, key, level - 1, target_level, <<selected[1]>>) :
                   selected \in {SelectNeighbors(key, nearest_elements, idx.vertices_, 1,
                                                 idx.distance_fn_)}}) :
             nearest_elements \in {SearchLayer(idx.layers_[level + 1], idx.vertices_, key,
                                               idx.ef_search_, entry_points)}})
  ELSE [level |-> level, entry_points |-> entry_points]

\* InsertVectorEntry's second for loop, one level: the layer after the new
\* vertex has been added to it, connected and its neighbors' edges replaced
InsertIntoLayer(idx, layer, key, vertex_id, nearest_elements) ==
  Only({Only({ShrinkNeighbors(connected, idx.vertices_, neighbors, 1, idx.m_max_,
                              idx.distance_fn_) :
              connected \in {ConnectNeighbors(NswAddVertex(layer, vertex_id), vertex_id,
                                              neighbors, 1)}}) :
        neighbors \in {SelectNeighbors(key, nearest_elements, idx.vertices_, idx.m_,
                                       idx.distance_fn_)}})

\* InsertVectorEntry with a second for loop that stops after the target
\* level, so that the new vertex is in no layer below it: the code that the
\* containment chain (C3) must tell from the source
InsertBelowTargetOnly(idx, layers, key, vertex_id, level, entry_points) ==
  IF level >= 0
  THEN Only({[layers EXCEPT ![level + 1] =
                InsertIntoLayer(idx, layers[level + 1], key, vertex_id, nearest_elements)] :
             nearest_elements \in {SearchLayer(layers[level + 1], idx.vertices_, key,
                                               idx.ef_construction_, entry_points)}})
  ELSE layers

RECURSIVE InsertBelow(_, _, _, _, _, _)
\* InsertVectorEntry's second for loop, from level down to 0: layers_
InsertBelow(idx, layers, key, vertex_id, level, entry_points) ==
  IF level >= 0
  THEN Only({Only({InsertBelow(idx, nlayers, key, vertex_id, level - 1, nearest_elements) :
                   nlayers \in {[layers EXCEPT ![level + 1] =
                                   InsertIntoLayer(idx, layers[level + 1], key, vertex_id,
                                                   nearest_elements)]}}) :
             nearest_elements \in {SearchLayer(layers[level + 1], idx.vertices_, key,
                                               idx.ef_construction_, entry_points)}})
  ELSE layers

RECURSIVE NewLayers(_, _, _, _)
\* InsertVectorEntry's while loop that creates the layers up to target_level
NewLayers(idx, layers, vertex_id, target_level) ==
  IF Len(layers) <= target_level
  THEN Only({NewLayers(idx, nlayers, vertex_id, target_level) :
             nlayers \in {Append(layers,
                            NswAddVertex(NSW(idx.distance_fn_, idx.m_max_), vertex_id))}})
  ELSE layers

\* HNSWIndex::AddVertex(vec, rid) on the index idx
AddVertex(idx, vec, rid) ==
  [idx EXCEPT !.vertices_ = Append(@, vec), !.rids_ = Append(@, rid)]

\* InsertVectorEntry with this target_level does not return: below 0 the first
\* for loop of an index with a vertex goes on to layers_[-1]; at INT_MAX the
\* while loop creates layers until memory is exhausted
InsertCrashes(this, target_level) ==
  \/ target_level < 0 /\ this.layers_[1].in_vertices_ # <<>>
  \/ target_level = INT_MAX

\* HNSWIndex::InsertVectorEntry(key, rid) on the index this, target_level being
\* the level drawn for the new vertex: the index afterwards
InsertVectorEntry(this, key, rid, target_level) ==
  IF InsertCrashes(this, target_level) THEN [this EXCEPT !.crashed = TRUE] ELSE
  Only({Only({[idx EXCEPT !.layers_ = NewLayers(idx, linked, Len(this.vertices_),
                                                 target_level)] :
              linked \in
                {IF idx.layers_[1].in_vertices_ # <<>>
                 THEN Only({InsertBelow(idx, idx.layers_, key, Len(this.vertices_),
                                        above.level, above.entry_points) :
                            above \in {InsertAbove(idx, key, Len(idx.layers_) - 1,
                                        target_level,
                                        <<DefaultEntryPoint(idx.layers_[Len(idx.layers_)])>>)}})
                 ELSE [idx.layers_ EXCEPT ![1] = NswAddVertex(@, Len(this.vertices_))]}}) :
        idx \in {AddVertex(this, key, rid)}})

RECURSIVE InsertAll(_, _, _, _)
\* BuildIndex's loop: InsertVectorEntry for shuffled[i..], levels[i] being the
\* level drawn for shuffled[i]
InsertAll(this, shuffled, levels, i) ==
  IF i > Len(shuffled) \/ this.crashed THEN this
  ELSE Only({InsertAll(idx, shuffled, levels, i + 1) :
             idx \in {InsertVectorEntry(this, shuffled[i].vec, shuffled[i].rid, levels[i])}})

RECURSIVE ScanAbove(_, _, _, _, _)
\* ScanVectorKey's while loop from layer i down to layer 1: entry_points
ScanAbove(this, base_vector, limit, i, entry_points) ==
  IF i > 0
  THEN Only({ScanAbove(this, base_vector, limit, i - 1, found) :
             found \in {SearchLayer(this.layers_[i + 1], this.vertices_, base_vector, limit,
                                    entry_points)}})
  ELSE entry_points

\* HNSWIndex::ScanVectorKey(base_vector, limit) on an index with a vertex
HnswScanVectorKey(this, base_vector, limit) ==
  Only({Only({[j \in DOMAIN found |-> this.rids_[found[j] + 1]] :
              found \in {SearchLayer(this.layers_[1], this.vertices_, base_vector, limit,
                                     entry_points)}}) :
        entry_points \in
          {ScanAbove(this, base_vector, limit, Len(this.layers_) - 1,
                     <<DefaultEntryPoint(this.layers_[Len(this.layers_)])>>)}})

RECURSIVE ScanCalls(_, _, _, _, _)
\* the SearchLayer calls ScanVectorKey makes from layer i down to layer 0,
\* each with the limit and the entry_points it is given
ScanCalls(this, base_vector, limit, i, entry_points) ==
  IF i >= 0
  THEN Only({<<[layer |-> i, limit |-> limit, entry_points |-> entry_points]>>
             \o ScanCalls(this, base_vector, limit, i - 1, found) :
             found \in {SearchLayer(this.layers_[i + 1], this.vertices_, base_vector, limit,
                                    entry_points)}})
  ELSE <<>>

(***************************************************************************)
(* State                                                                   *)
(***************************************************************************)
VARIABLES
  index_type,         \* which VectorIndex this is: "ivfflat" or "hnsw"
  distance_fn_,       \* VectorIndex::distance_fn_, the metric of the index
  lists_,             \* IVFFlatIndex::lists_
  probe_lists_,       \* IVFFlatIndex::probe_lists_
  centroids_,         \* IVFFlatIndex::centroids_
  centroids_buckets_, \* IVFFlatIndex::centroids_buckets_: sequences of [vec, rid]
  ivf_status,         \* "constructed", "ready" (BuildIndex has returned), "crashed"
  ivf_n,              \* number of (vector, rid) pairs handed to the index so far
  ivf_inserted,       \* number of InsertVectorEntry calls made so far
  ivf_call,           \* the last call made on the index, with its arguments and result
  vertices_,          \* HNSWIndex::vertices_
  rids_,              \* HNSWIndex::rids_
  layers_,            \* HNSWIndex::layers_
  m_,                 \* HNSWIndex::m_
  m_max_,             \* HNSWIndex::m_max_
  m_max_0_,           \* HNSWIndex::m_max_0_
  ef_construction_,   \* HNSWIndex::ef_construction_
  ef_search_,         \* HNSWIndex::ef_search_
  hnsw_status,        \* "constructed", "ready" (BuildIndex has returned), "crashed"
  hnsw_call,          \* the last call made on the index, with its arguments and result
  catalog_,           \* Optimizer::catalog_: the tables and the indexes of the database
  vector_index_match_method_,  \* Optimizer::vector_index_match_method_, the session string
  opt_call,           \* the last OptimizeAsVectorIndexScan call, with its plan and outcome
  fn_call             \* the last call of a free function, with its arguments and result

ivf_vars == <<lists_, probe_lists_, centroids_, centroids_buckets_, ivf_status,
              ivf_n, ivf_inserted, ivf_call>>

hnsw_vars == <<vertices_, rids_, layers_, m_, m_max_, m_max_0_, ef_construction_,
               ef_search_, hnsw_status, hnsw_call>>

opt_vars == <<catalog_, vector_index_match_method_, opt_call>>

(***************************************************************************)
(* Inputs                                                                  *)
(***************************************************************************)
\* the vectors stored in an index
PointSet == {Vec(0, 0), Vec(10, 0), Vec(10, 10), Vec(50, 50)}

\* the query vectors
QuerySet == {Vec(9, 1), Vec(10, 10)}

\* longest initial_data of BuildIndex drawn from all of PointSet
MaxBuild == 2

\* most InsertVectorEntry calls on one IVFFlat index
MaxIvfInserts == 1

\* largest limit of a scan
MaxLimit == 3

\* the (lists, probe_lists) options an IVFFlat index is created with
IvfOptions == {<<1, 1>>, <<2, 1>>, <<2, 2>>}

\* initial_data with RIDs r0, r1, ... in order
WithRids(vecs) == [i \in DOMAIN vecs |-> [vec |-> vecs[i], rid |-> i - 1]]

\* the data set of the end-to-end scenarios: (1,0), (0,1), (1,1), (5,5)
ScenarioData == WithRids(<<Vec(10, 0), Vec(0, 10), Vec(10, 10), Vec(50, 50)>>)

BuildInputs ==
  {WithRids(vs) : vs \in UNION {[1..n -> PointSet] : n \in 0..MaxBuild}}
    \cup {ScenarioData}

\* RandomSample: the first k of a shuffle of 0..n-1
Samples(n, k) ==
  {sq \in [1..k -> 0..(n - 1)] : \A i, j \in 1..k : i # j => sq[i] # sq[j]}

NoCall == [op |-> "none", data |-> <<>>, key |-> <<>>, rid |-> -1, level |-> 0,
           limit |-> 0, result |-> <<>>]

\* the state of the index of the other type, which is never constructed
NoIVF ==
  /\ lists_ = 0
  /\ probe_lists_ = 0
  /\ centroids_ = <<>>
  /\ centroids_buckets_ = <<>>
  /\ ivf_status = "none"
  /\ ivf_n = 0
  /\ ivf_inserted = 0
  /\ ivf_call = NoCall

NoHNSW ==
  /\ vertices_ = <<>>
  /\ rids_ = <<>>
  /\ layers_ = <<>>
  /\ m_ = 0
  /\ m_max_ = 0
  /\ m_max_0_ = 0
  /\ ef_construction_ = 0
  /\ ef_search_ = 0
  /\ hnsw_status = "none"
  /\ hnsw_call = NoCall

\* no optimizer runs beside an index under test
NoOptCall == [op |-> "none", status |-> "returned"]

NoOpt ==
  /\ catalog_ = <<>>
  /\ vector_index_match_method_ = ""
  /\ opt_call = NoOptCall

\* no free function has been called on its own
NoFn == fn_call = [op |-> "none"]

\* no executor is run
NoExec ==
  /\ plan_ = [order_bys_ |-> <<>>, n_ |-> 0]
  /\ child_ = <<>>
  /\ topn_ = [op |-> "none"]
  /\ sort_ = [op |-> "none"]
  /\ ins_ = [op |-> "none"]

(***************************************************************************)
(* IVFFlat: construction and operations                                    *)
(***************************************************************************)
\* IVFFlatIndex::IVFFlatIndex with options lists and probe_lists
InitIVF ==
  /\ index_type = "ivfflat"
  /\ distance_fn_ \in VectorExpressionType
  /\ \E o \in IvfOptions : lists_ = o[1] /\ probe_lists_ = o[2]
  /\ centroids_ = <<>>
  /\ centroids_buckets_ = <<>>
  /\ ivf_status = "constructed"
  /\ ivf_n = 0
  /\ ivf_inserted = 0
  /\ ivf_call = NoCall
  /\ NoHNSW
  /\ NoOpt
  /\ NoFn
  /\ NoExec

\* the process is killed inside the call c
IvfCrashed(c) ==
  /\ ivf_status' = "crashed"
  /\ ivf_call' = c
  /\ UNCHANGED <<lists_, probe_lists_, centroids_, centroids_buckets_, ivf_n>>

\* BuildIndex with the test |initial_data| < lists made after
\* centroids_buckets_.resize(lists_): the code that the silent build on too
\* little data (C12) must tell from the source
IvfBuildIndexResizeFirst ==
  /\ index_type = "ivfflat"
  /\ ivf_status = "constructed"
  /\ \E initial_data \in BuildInputs :
       LET c == [NoCall EXCEPT !.op = "build", !.data = initial_data]
       IN IF Len(initial_data) < lists_
          THEN /\ ivf_status' = "ready"
               /\ ivf_call' = c
               /\ centroids_buckets_' = [i \in 1..lists_ |-> <<>>]
               /\ UNCHANGED <<lists_, probe_lists_, centroids_, ivf_n, ivf_inserted>>
          ELSE \E sample \in Samples(Len(initial_data), lists_),
                  int_of_inf \in IntOfInfOutcomes, outcome \in OobOutcomes :
                 \E r \in {BuildResult(initial_data, lists_, sample, int_of_inf)} :
                    /\ r.done
                    /\ IF r.oob /\ outcome = "crash"
                       THEN IvfCrashed(c) /\ UNCHANGED ivf_inserted
                       ELSE /\ centroids_' = r.centroids
                            /\ centroids_buckets_' = r.buckets
                            /\ ivf_status' = "ready"
                            /\ ivf_n' = Len(initial_data)
                            /\ ivf_call' = c
                            /\ UNCHANGED <<lists_, probe_lists_, ivf_inserted>>
  /\ UNCHANGED <<opt_vars, fn_call, exec_vars, index_type, distance_fn_, hnsw_vars>>

\* IVFFlatIndex::BuildIndex(initial_data)
IvfBuildIndex ==
  /\ index_type = "ivfflat"
  /\ ivf_status = "constructed"
  /\ \E initial_data \in BuildInputs :
       LET c == [NoCall EXCEPT !.op = "build", !.data = initial_data]
       IN IF Len(initial_data) < lists_
          THEN /\ ivf_status' = "ready"
               /\ ivf_call' = c
               /\ UNCHANGED <<lists_, probe_lists_, centroids_, centroids_buckets_, ivf_n,
                              ivf_inserted>>
          ELSE \E sample \in Samples(Len(initial_data), lists_),
                  int_of_inf \in IntOfInfOutcomes, outcome \in OobOutcomes :
                 \E r \in {BuildResult(initial_data, lists_, sample, int_of_inf)} :
                    /\ r.done
                    /\ IF r.oob /\ outcome = "crash"
                       THEN IvfCrashed(c) /\ UNCHANGED ivf_inserted
                       ELSE /\ centroids_' = r.centroids
                            /\ centroids_buckets_' = r.buckets
                            /\ ivf_status' = "ready"
                            /\ ivf_n' = Len(initial_data)
                            /\ ivf_call' = c
                            /\ UNCHANGED <<lists_, probe_lists_, ivf_inserted>>
  /\ UNCHANGED <<opt_vars, fn_call, exec_vars, index_type, distance_fn_, hnsw_vars>>

\* IVFFlatIndex::InsertVectorEntry(key, rid)
IvfInsertVectorEntry ==
  /\ index_type = "ivfflat"
  /\ ivf_status = "ready"
  /\ ivf_inserted < MaxIvfInserts
  /\ ivf_inserted' = ivf_inserted + 1
  /\ \E key \in PointSet, int_of_inf \in IntOfInfOutcomes, outcome \in OobOutcomes :
     \E nearest_centroid_idx \in {FindCentroid(key, centroids_, L2Dist, int_of_inf)} :
       LET rid == ivf_n
           c == [NoCall EXCEPT !.op = "insert", !.key = key, !.rid = rid]
       IN IF nearest_centroid_idx < 0
          THEN IF outcome = "crash"
               THEN IvfCrashed(c)
               ELSE /\ ivf_call' = c
                    /\ ivf_n' = ivf_n + 1
                    /\ UNCHANGED <<lists_, probe_lists_, centroids_, centroids_buckets_,
                                   ivf_status>>
          ELSE /\ centroids_buckets_' =
                    [centroids_buckets_ EXCEPT ![nearest_centroid_idx + 1] =
                       Append(@, [vec |-> key, rid |-> rid])]
               /\ ivf_call' = c
               /\ ivf_n' = ivf_n + 1
               /\ UNCHANGED <<lists_, probe_lists_, centroids_, ivf_status>>
  /\ UNCHANGED <<opt_vars, fn_call, exec_vars, index_type, distance_fn_, hnsw_vars>>

\* IVFFlatIndex::ScanVectorKey(base_vector, limit)
IvfScan ==
  /\ index_type = "ivfflat"
  /\ ivf_status = "ready"
  /\ \E base_vector \in QuerySet, limit \in 0..MaxLimit :
       ivf_call' = [NoCall EXCEPT !.op = "scan", !.key = base_vector, !.limit = limit,
                      !.result = IvfScanVectorKey(centroids_, centroids_buckets_,
                                                  probe_lists_, base_vector, limit)]
  /\ UNCHANGED <<opt_vars, fn_call, exec_vars, index_type, distance_fn_, lists_, probe_lists_, centroids_,
                 centroids_buckets_, ivf_status, ivf_n, ivf_inserted, hnsw_vars>>

NextIVF == IvfBuildIndex \/ IvfInsertVectorEntry \/ IvfScan

vars == <<index_type, distance_fn_, ivf_vars, hnsw_vars, opt_vars, fn_call, exec_vars>>

SpecIVF == InitIVF /\ [][NextIVF]_vars

(***************************************************************************)
(* HNSW: construction and operations                                       *)
(***************************************************************************)
\* the vectors stored in an HNSW index
HnswPointSet == {Vec(10, 0), Vec(10, 10)}

\* the query vectors of an HNSW scan
HnswQuerySet == {Vec(9, 1)}

\* the limits of an HNSW scan
HnswLimits == {0, 2, MaxVertices}

\* longest initial_data of HNSWIndex::BuildIndex
MaxHnswBuild == 1

\* the (m, ef_construction, ef_search) options an HNSW index is created with
HnswOptions == {<<1, 1, 1>>, <<2, 1, 1>>}

\* target_level = static_cast<int>(std::floor(-std::log(u) * m_l_)) for u in
\* [0, 1): with m >= 2 a level from 0 on, here up to MaxLevel; with m = 1,
\* m_l_ = 1.0 / std::log(1) is +inf, so is the product, and its conversion to
\* int is undefined behaviour
TargetLevels(m) == IF m = 1 THEN IntOfInfOutcomes ELSE 0..MaxLevel

HnswBuildInputs ==
  {WithRids(vs) : vs \in UNION {[1..n -> HnswPointSet] : n \in 0..MaxHnswBuild}}

\* std::shuffle: the orders it can leave initial_data in
Shuffles(initial_data) ==
  {[i \in DOMAIN initial_data |-> initial_data[p[i]]] :
     p \in {q \in [DOMAIN initial_data -> DOMAIN initial_data] :
              \A i, j \in DOMAIN initial_data : i # j => q[i] # q[j]}}

\* the number of vertices up to which an index with metric dist_fn is grown
MaxVerticesOf(dist_fn) == IF dist_fn = L2Dist THEN MaxVertices ELSE MaxVertices - 1

\* the HNSW index object
ThisHnsw ==
  [vertices_ |-> vertices_, rids_ |-> rids_, layers_ |-> layers_, m_ |-> m_,
   m_max_ |-> m_max_, ef_construction_ |-> ef_construction_, ef_search_ |-> ef_search_,
   distance_fn_ |-> distance_fn_, crashed |-> FALSE]

\* HNSWIndex::HNSWIndex with options m, ef_construction and ef_search
InitHNSW ==
  /\ index_type = "hnsw"
  /\ distance_fn_ \in VectorExpressionType
  /\ \E o \in HnswOptions :
       /\ m_ = o[1]
       /\ ef_construction_ = o[2]
       /\ ef_search_ = o[3]
       /\ m_max_ = o[1]
       /\ m_max_0_ = o[1] * o[1]
       /\ layers_ = <<NSW(distance_fn_, o[1] * o[1])>>
  /\ vertices_ = <<>>
  /\ rids_ = <<>>
  /\ hnsw_status = "constructed"
  /\ hnsw_call = NoCall
  /\ NoIVF
  /\ NoOpt
  /\ NoFn
  /\ NoExec

\* HNSWIndex::BuildIndex(initial_data)
HnswBuildIndex ==
  /\ index_type = "hnsw"
  /\ hnsw_status = "constructed"
  /\ \E initial_data \in HnswBuildInputs :
       \E shuffled \in Shuffles(initial_data),
          levels \in [DOMAIN initial_data -> TargetLevels(m_)] :
         \E idx \in {InsertAll(ThisHnsw, shuffled, levels, 1)} :
           /\ vertices_' = idx.vertices_
           /\ rids_' = idx.rids_
           /\ layers_' = idx.layers_
           /\ hnsw_status' = IF idx.crashed THEN "crashed" ELSE "ready"
           /\ hnsw_call' = [NoCall EXCEPT !.op = "build", !.data = initial_data]
  /\ UNCHANGED <<opt_vars, fn_call, exec_vars, index_type, distance_fn_, ivf_vars, m_, m_max_, m_max_0_,
                 ef_construction_, ef_search_>>

\* HNSWIndex::InsertVectorEntry(key, rid)
HnswInsertVectorEntry ==
  /\ index_type = "hnsw"
  /\ hnsw_status = "ready"
  /\ Len(vertices_) < MaxVerticesOf(distance_fn_)
  /\ \E key \in HnswPointSet, target_level \in TargetLevels(m_) :
       \E idx \in {InsertVectorEntry(ThisHnsw, key, Len(vertices_), target_level)} :
         /\ vertices_' = idx.vertices_
         /\ rids_' = idx.rids_
         /\ layers_' = idx.layers_
         /\ hnsw_status' = IF idx.crashed THEN "crashed" ELSE hnsw_status
         /\ hnsw_call' = [NoCall EXCEPT !.op = "insert", !.key = key,
                                        !.rid = Len(vertices_), !.level = target_level]
  /\ UNCHANGED <<opt_vars, fn_call, exec_vars, index_type, distance_fn_, ivf_vars, m_, m_max_, m_max_0_,
                 ef_construction_, ef_search_>>

\* HNSWIndex::ScanVectorKey(base_vector, limit); on an index without a vertex
\* DefaultEntryPoint reads element 0 of an empty std::vector, whose storage
\* is the null pointer, and the process is killed.  The function does not
\* change the index: hnsw_call keeps its arguments, and what it returned is
\* HnswScanResult.
HnswScan ==
  /\ index_type = "hnsw"
  /\ hnsw_status = "ready"
  /\ \E base_vector \in HnswQuerySet, limit \in HnswLimits :
       hnsw_call' = [NoCall EXCEPT !.op = "scan", !.key = base_vector, !.limit = limit]
  /\ hnsw_status' = IF layers_[Len(layers_)].in_vertices_ = <<>>
                    THEN "crashed" ELSE hnsw_status
  /\ UNCHANGED <<opt_vars, fn_call, exec_vars, index_type, distance_fn_, ivf_vars, vertices_, rids_, layers_, m_,
                 m_max_, m_max_0_, ef_construction_, ef_search_>>

\* what the scan recorded in hnsw_call returned
HnswScanResult == HnswScanVectorKey(ThisHnsw, hnsw_call.key, hnsw_call.limit)

NextHNSW == HnswBuildIndex \/ HnswInsertVectorEntry \/ HnswScan

SpecHNSW == InitHNSW /\ [][NextHNSW]_vars

(***************************************************************************)
(* Optimizer: expressions, plan nodes and the catalog                      *)
(* (src/src/optimizer/vector_index_scan.cpp)                               *)
(***************************************************************************)
\* AbstractExpression: the class of the node, children_, and the payload of
\* the class (expr_type_ of a VectorExpression, the value of a constant, the
\* column index of a column reference)
AbstractExpression(kind, children, expr_type, val) ==
  [kind |-> kind, children_ |-> children, expr_type_ |-> expr_type, val |-> val]

ColumnValueExpression(col_idx) == AbstractExpression("ColumnValue", <<>>, "none", col_idx)

ConstantValueExpression(val) == AbstractExpression("ConstantValue", <<>>, "none", val)

ArrayExpression(children) == AbstractExpression("Array", children, "none", 0)

\* VectorExpression(expr_type, left, right): children_ = {left, right}
VectorExpression(expr_type, left, right) ==
  AbstractExpression("Vector", <<left, right>>, expr_type, 0)

\* no expression
NoExpression == AbstractExpression("none", <<>>, "none", 0)

\* what a read past the last element of a nonempty children_ yields when the
\* process survives it: a value that is no element of the vector
StrayExpression == AbstractExpression("stray", <<>>, "none", 0)

\* AbstractPlanNode: type, output_schema_, children_; the other fields belong
\* to the node classes and keep these defaults in the classes without them
AbstractPlanNode(type, output, children) ==
  [type |-> type, output_schema_ |-> output, children_ |-> children,
   table_oid_ |-> -1, table_name_ |-> "", n_ |-> 0, order_bys_ |-> <<>>,
   expressions_ |-> <<>>, index_oid_ |-> -1, index_name_ |-> "",
   base_vector_ |-> NoExpression, limit_ |-> 0]

\* a null AbstractPlanNodeRef
NullPlan == AbstractPlanNode("null", <<>>, <<>>)

SeqScanPlanNode(output, table_oid, table_name) ==
  [AbstractPlanNode("SeqScan", output, <<>>) EXCEPT
     !.table_oid_ = table_oid, !.table_name_ = table_name]

\* ProjectionPlanNode(output, expressions, child): children_ = {child}
ProjectionPlanNode(output, expressions, child) ==
  [AbstractPlanNode("Projection", output, <<child>>) EXCEPT
     !.expressions_ = expressions]

\* TopNPlanNode(output, child, order_bys, n)
TopNPlanNode(output, child, order_bys, n) ==
  [AbstractPlanNode("TopN", output, <<child>>) EXCEPT
     !.order_bys_ = order_bys, !.n_ = n]

LimitPlanNode(output, child, limit) ==
  [AbstractPlanNode("Limit", output, <<child>>) EXCEPT !.limit_ = limit]

FilterPlanNode(output, child) == AbstractPlanNode("Filter", output, <<child>>)

VectorIndexScanPlanNode(output, table_oid, table_name, index_oid, index_name, base_vector, limit) ==
  [AbstractPlanNode("VectorIndexScan", output, <<>>) EXCEPT
     !.table_oid_ = table_oid, !.table_name_ = table_name,
     !.index_oid_ = index_oid, !.index_name_ = index_name,
     !.base_vector_ = base_vector, !.limit_ = limit]

\* Column: name and type
Column(name, type) == [name |-> name, type |-> type]

\* IndexInfo, with the metric of the index it owns
IndexInfo(index_oid, name, table_name, type, key_schema, key_attrs, distance_fn) ==
  [index_oid_ |-> index_oid, name_ |-> name, table_name_ |-> table_name,
   index_type_ |-> type, key_schema_ |-> key_schema,
   key_attrs_ |-> key_attrs, distance_fn_ |-> distance_fn]

\* TableInfo
TableInfo(oid, name, schema) == [oid_ |-> oid, name_ |-> name, schema_ |-> schema]

\* Catalog::GetTable(table_oid): the tables with this oid, none for an unknown
\* oid (the null TableInfo)
GetTable(catalog, table_oid) ==
  SelectSeq(catalog.tables, LAMBDA t : t.oid_ = table_oid)

\* Catalog::GetTableIndexes(table_name): the indexes of the table, in catalog
\* order
GetTableIndexes(catalog, table_name) ==
  SelectSeq(catalog.indexes, LAMBDA i : i.table_name_ = table_name)

\* a null IndexInfo pointer, with the string the by-reference parameter
\* vector_index_match_method is left with
NoIndex(method) == [found |-> FALSE, index |-> <<>>, method |-> method]

FoundIndex(index_info) ==
  [found |-> TRUE, index |-> <<index_info>>, method |-> index_info.name_]

\* the loop of MatchVectorIndex over table_indexes, from position i on
RECURSIVE MatchVectorIndexFrom(_, _, _, _, _)
MatchVectorIndexFrom(table_indexes, i, col_idx, dist_fn, method) ==
  IF i > Len(table_indexes) THEN NoIndex(method)
  ELSE
    LET index_info == table_indexes[i]
        next == MatchVectorIndexFrom(table_indexes, i + 1, col_idx, dist_fn, method)
    IN IF Len(index_info.key_schema_) > col_idx
       THEN LET column == index_info.key_schema_[col_idx + 1]
            IN IF index_info.index_type_ \in {"VectorHNSWIndex", "VectorIVFFlatIndex"}
               THEN LET dist_fn_match ==
                          \/ dist_fn = L2Dist /\ column.type = "VECTOR"
                          \/ dist_fn = CosineSimilarity /\ column.type = "VECTOR"
                          \/ dist_fn = InnerProduct /\ column.type = "VECTOR"
                    IN IF dist_fn_match
                       THEN IF method = "" \/ method = "default"
                            THEN FoundIndex(index_info)
                            ELSE IF method = "hnsw"
                                    /\ index_info.index_type_ = "VectorHNSWIndex"
                            THEN FoundIndex(index_info)
                            ELSE IF method = "ivfflat"
                                    /\ index_info.index_type_ = "VectorIVFFlatIndex"
                            THEN FoundIndex(index_info)
                            ELSE IF method = "none"
                            THEN NoIndex(method)
                            ELSE next
                       ELSE next
               ELSE next
       ELSE next

\* MatchVectorIndex(catalog, table_oid, col_idx, dist_fn, vector_index_match_method)
MatchVectorIndex(catalog, table_oid, col_idx, dist_fn, vector_index_match_method) ==
  LET table_info == GetTable(catalog, table_oid)
  IN IF table_info = <<>>
     THEN NoIndex(vector_index_match_method)
     ELSE MatchVectorIndexFrom(GetTableIndexes(catalog, table_info[1].name_), 1,
                               col_idx, dist_fn, vector_index_match_method)

\* v[i] of a std::vector (i counted from 0) through the unchecked operator[]:
\* inside the vector, the element; an empty vector has no storage and the read
\* goes through a null pointer; past the end of a nonempty one it is an
\* out-of-range read of the heap
ReadAt(v, i, oob) ==
  IF i < Len(v) THEN [ok |-> TRUE, val |-> v[i + 1]]
  ELSE IF Len(v) = 0 \/ oob = "crash" THEN [ok |-> FALSE, val |-> NoExpression]
  ELSE [ok |-> TRUE, val |-> StrayExpression]

\* the loop that fills array_children: for i = 0 .. children_.size() of the
\* first ordering expression, children_[0]->GetChildAt(i) of that expression
ArrayChildren(order_bys, oob) ==
  IF order_bys = <<>> THEN [ok |-> FALSE, children |-> <<>>]
  ELSE
    LET expr == order_bys[1].expr
    IN IF expr.children_ = <<>> THEN [ok |-> FALSE, children |-> <<>>]
       ELSE
         LET first == expr.children_[1]
             reads == [i \in 1..(Len(expr.children_) + 1) |->
                         ReadAt(first.children_, i - 1, oob)]
         IN IF \E i \in DOMAIN reads : ~reads[i].ok
            THEN [ok |-> FALSE, children |-> <<>>]
            ELSE [ok |-> TRUE, children |-> [i \in DOMAIN reads |-> reads[i].val]]

\* the distance function the optimizer hands to MatchVectorIndex: expr_type_
\* of the last VectorExpression among the projection's expressions, L2Dist
\* when there is none
RECURSIVE ProjectionDistFn(_, _, _)
ProjectionDistFn(expressions, i, dist_fn) ==
  IF i > Len(expressions) THEN dist_fn
  ELSE ProjectionDistFn(expressions, i + 1,
         IF expressions[i].kind = "Vector" THEN expressions[i].expr_type_ ELSE dist_fn)

\* the call returned this plan
Returned(plan) == [status |-> "returned", plan |-> plan]

\* the process was killed inside the call
OptCrashed == [status |-> "crashed", plan |-> NullPlan]

\* Optimizer::OptimizeAsVectorIndexScan(plan) with the optimizer's catalog_
\* and vector_index_match_method_
RECURSIVE OptimizeAsVectorIndexScan(_, _, _, _)
OptimizeAsVectorIndexScan(catalog, match_method, plan, oob) ==
  IF plan.type = "null" THEN OptCrashed
  ELSE
  LET children == [i \in DOMAIN plan.children_ |->
                     OptimizeAsVectorIndexScan(catalog, match_method, plan.children_[i], oob)]
  IN
  IF \E i \in DOMAIN children : children[i].status = "crashed" THEN OptCrashed
  ELSE IF plan.type = "SeqScan" \/ plan.type = "Projection" THEN Returned(plan)
  ELSE IF plan.type # "TopN" THEN Returned(plan)
  ELSE
  LET limit == plan.n_
      array_children == ArrayChildren(plan.order_bys_, oob)
  IN
  IF ~array_children.ok THEN OptCrashed
  ELSE
  LET base_vector == ArrayExpression(array_children.children)
      child == plan.children_[1]
      projection_plan == IF child.type = "Projection" THEN <<child>> ELSE <<>>
      seq_scan_plan ==
        IF child.type = "Projection"
        THEN IF child.children_[1].type = "SeqScan" THEN <<child.children_[1]>> ELSE <<>>
        ELSE IF child.type = "SeqScan" THEN <<child>> ELSE <<>>
  IN
  IF seq_scan_plan = <<>> THEN Returned(plan)
  ELSE
  LET col_idx == 0
      dist_fn == IF projection_plan # <<>>
                 THEN ProjectionDistFn(projection_plan[1].expressions_, 1, L2Dist)
                 ELSE L2Dist
      vector_index_match_method == IF match_method # "" THEN match_method ELSE "default"
      index_info == MatchVectorIndex(catalog, seq_scan_plan[1].table_oid_, col_idx,
                                     dist_fn, vector_index_match_method)
  IN
  IF ~index_info.found THEN Returned(plan)
  ELSE
  LET vector_index_scan_plan ==
        VectorIndexScanPlanNode(seq_scan_plan[1].output_schema_,
                                seq_scan_plan[1].table_oid_,
                                GetTable(catalog, seq_scan_plan[1].table_oid_)[1].name_,
                                index_info.index[1].index_oid_,
                                index_info.method,
                                base_vector,
                                limit)
  IN
  IF projection_plan # <<>>
  THEN LET res == ProjectionPlanNode(projection_plan[1].output_schema_,
                                     projection_plan[1].expressions_, NullPlan)
       IN Returned([res EXCEPT !.children_ = Append(@, vector_index_scan_plan)])
  ELSE Returned(vector_index_scan_plan)

(***************************************************************************)
(* Optimizer: inputs                                                       *)
(***************************************************************************)
\* table t1 (oid 0) with two vector columns and an integer column
T1Schema == <<Column("v1", "VECTOR"), Column("v2", "VECTOR"), Column("id", "INTEGER")>>

\* table t2 (oid 1)
T2Schema == <<Column("v1", "VECTOR")>>

Tables == <<TableInfo(0, "t1", T1Schema), TableInfo(1, "t2", T2Schema)>>

\* the indexes a catalog is drawn from
IndexSet ==
  {IndexInfo(0, "h1", "t1", "VectorHNSWIndex", <<Column("v1", "VECTOR")>>, <<0>>, L2Dist),
   IndexInfo(1, "f1", "t1", "VectorIVFFlatIndex", <<Column("v1", "VECTOR")>>, <<0>>, L2Dist),
   IndexInfo(2, "h2", "t1", "VectorHNSWIndex", <<Column("v2", "VECTOR")>>, <<1>>, L2Dist),
   IndexInfo(3, "hc", "t1", "VectorHNSWIndex", <<Column("v1", "VECTOR")>>, <<0>>,
             CosineSimilarity),
   IndexInfo(4, "b3", "t1", "BPlusTreeIndex", <<Column("id", "INTEGER")>>, <<2>>, "none"),
   IndexInfo(5, "x1", "t2", "VectorHNSWIndex", <<Column("v1", "VECTOR")>>, <<0>>, L2Dist)}

\* most indexes in a catalog
MaxIndexes == 2

Catalogs ==
  {[tables |-> Tables, indexes |-> ix] :
     ix \in {sq \in UNION {[1..n -> IndexSet] : n \in 0..MaxIndexes} :
               \A i, j \in DOMAIN sq : i # j => sq[i] # sq[j]}}

\* the values of the session string
MatchMethods == {"", "default", "hnsw", "ivfflat", "none"}

\* ARRAY[1, 2], ARRAY[1, 2, 3], ARRAY[1, 2, 3, 4]
ArrayLiteral(d) == ArrayExpression([i \in 1..d |-> ConstantValueExpression(i)])

ColV1 == ColumnValueExpression(0)

ColV2 == ColumnValueExpression(1)

ColId == ColumnValueExpression(2)

\* an entry of order_bys_: pair<OrderByType, AbstractExpressionRef>
OrderBy(type, expr) == [type |-> type, expr |-> expr]

OrderBys ==
  {<<OrderBy("ASC", VectorExpression(L2Dist, ArrayLiteral(3), ColV1))>>,
   <<OrderBy("DEFAULT", VectorExpression(L2Dist, ArrayLiteral(3), ColV1))>>,
   <<OrderBy("DESC", VectorExpression(L2Dist, ArrayLiteral(3), ColV1))>>,
   <<OrderBy("ASC", VectorExpression(L2Dist, ColV1, ArrayLiteral(3)))>>,
   <<OrderBy("ASC", VectorExpression(L2Dist, ArrayLiteral(2), ColV1))>>,
   <<OrderBy("ASC", VectorExpression(L2Dist, ArrayLiteral(4), ColV1))>>,
   <<OrderBy("ASC", VectorExpression(CosineSimilarity, ArrayLiteral(3), ColV1))>>,
   <<OrderBy("ASC", VectorExpression(L2Dist, ArrayLiteral(3), ColV2))>>,
   <<OrderBy("ASC", VectorExpression(L2Dist, ArrayLiteral(3), ColV1)),
     OrderBy("ASC", ColId)>>,
   <<OrderBy("ASC", ColV1)>>,
   <<>>}

\* ORDER BY ARRAY[1, 2, 3] <-> v1, the form the rewrite is written for
PlainOrderBy == <<OrderBy("ASC", VectorExpression(L2Dist, ArrayLiteral(3), ColV1))>>

ScanT1 == SeqScanPlanNode(T1Schema, 0, "t1")

\* a sequential scan of a table the catalog does not know
ScanUnknown == SeqScanPlanNode(T1Schema, 9, "t9")

\* SELECT v1 FROM t1
ProjectV1(child) == ProjectionPlanNode(<<Column("v1", "VECTOR")>>, <<ColV1>>, child)

\* SELECT v1, cosine_similarity(ARRAY[1, 2, 3], v1) FROM t1
ProjectV1Cos(child) ==
  ProjectionPlanNode(<<Column("v1", "VECTOR"), Column("d", "DECIMAL")>>,
                     <<ColV1, VectorExpression(CosineSimilarity, ArrayLiteral(3), ColV1)>>,
                     child)

\* the TopN nodes the optimizer is given
TopNPlans ==
  {TopNPlanNode(c.output_schema_, c, ob, 3) :
     c \in {ScanT1, ProjectV1(ScanT1)}, ob \in OrderBys}
  \cup
  {TopNPlanNode(c.output_schema_, c, PlainOrderBy, 3) :
     c \in {ProjectV1Cos(ScanT1), FilterPlanNode(T1Schema, ScanT1),
            ProjectV1(FilterPlanNode(T1Schema, ScanT1)), ScanUnknown,
            TopNPlanNode(T1Schema, ScanT1, PlainOrderBy, 3)}}
  \cup
  {TopNPlanNode(<<Column("v1", "VECTOR")>>, ProjectV1(ScanT1), PlainOrderBy, 2)}

\* the TopN nodes that are put below other nodes
InnerPlans ==
  {TopNPlanNode(T1Schema, ScanT1, PlainOrderBy, 3),
   TopNPlanNode(<<Column("v1", "VECTOR")>>, ProjectV1(ScanT1), PlainOrderBy, 3),
   TopNPlanNode(T1Schema, ScanT1,
                <<OrderBy("ASC", VectorExpression(L2Dist, ColV1, ArrayLiteral(3)))>>, 3)}

PlanSet ==
  TopNPlans
  \cup {LimitPlanNode(t.output_schema_, t, 1) : t \in InnerPlans}
  \cup {FilterPlanNode(t.output_schema_, t) : t \in InnerPlans}
  \cup {ProjectionPlanNode(<<Column("v1", "VECTOR")>>, <<ColV1>>, t) : t \in InnerPlans}
  \cup {ScanT1, ProjectV1(ScanT1), LimitPlanNode(T1Schema, ScanT1, 1)}

(***************************************************************************)
(* Optimizer: construction and operations                                  *)
(***************************************************************************)
\* an Optimizer over a catalog, with the session's vector_index_match_method
InitOpt ==
  /\ index_type = "none"
  /\ distance_fn_ = L2Dist
  /\ NoIVF
  /\ NoHNSW
  /\ catalog_ \in Catalogs
  /\ vector_index_match_method_ \in MatchMethods
  /\ opt_call = NoOptCall
  /\ NoFn
  /\ NoExec

\* Optimizer::OptimizeAsVectorIndexScan(plan), called on a root plan
Optimize ==
  /\ index_type = "none"
  /\ opt_call.status = "returned"
  /\ \E plan \in PlanSet, oob \in OobOutcomes :
       \E r \in {OptimizeAsVectorIndexScan(catalog_, vector_index_match_method_, plan, oob)} :
         opt_call' = [op |-> "optimize", plan |-> plan, status |-> r.status,
                      result |-> r.plan]
  /\ UNCHANGED <<catalog_, vector_index_match_method_, index_type, distance_fn_,
                 ivf_vars, hnsw_vars, fn_call, exec_vars>>

\* Optimizer::OptimizeAsVectorIndexScan called on the plan the previous call
\* returned, with the same catalog and session string
OptimizeAgain ==
  /\ index_type = "none"
  /\ opt_call.op = "optimize"
  /\ opt_call.status = "returned"
  /\ \E oob \in OobOutcomes :
       \E r \in {OptimizeAsVectorIndexScan(catalog_, vector_index_match_method_,
                                           opt_call.result, oob)} :
         opt_call' = [op |-> "again", plan |-> opt_call.result, status |-> r.status,
                      result |-> r.plan]
  /\ UNCHANGED <<catalog_, vector_index_match_method_, index_type, distance_fn_,
                 ivf_vars, hnsw_vars, fn_call, exec_vars>>

NextOpt == Optimize \/ OptimizeAgain

SpecOpt == InitOpt /\ [][NextOpt]_vars

(***************************************************************************)
(* Free functions on their own                                             *)
(***************************************************************************)
\* the vectors ComputeDistance is called on: (0,0), (1,0), (0,1), (1,1),
\* (5,5) and (0.9,0.1)
DistPointSet ==
  {Vec(0, 0), Vec(10, 0), Vec(0, 10), Vec(10, 10), Vec(50, 50), Vec(9, 1)}

\* a call of op on args that has not been made yet
Pending(op, args) == [op |-> op, done |-> FALSE, args |-> args, result |-> <<>>]

\* the arguments of ComputeDistance(left, right, dist_fn)
DistanceInputs ==
  {Pending("distance", [left |-> left, right |-> right, dist_fn |-> dist_fn]) :
     left \in DistPointSet, right \in DistPointSet, dist_fn \in VectorExpressionType}

\* ComputeDistance(left, right, dist_fn)
Distance ==
  /\ index_type = "none"
  /\ fn_call.op = "distance"
  /\ ~fn_call.done
  /\ fn_call' = [fn_call EXCEPT
                   !.done = TRUE,
                   !.result = ComputeDistance(fn_call.args.left, fn_call.args.right,
                                              fn_call.args.dist_fn)]
  /\ UNCHANGED <<index_type, distance_fn_, ivf_vars, hnsw_vars, opt_vars,
               exec_vars>>

\* the vertices SelectNeighbors is called over: (0,0), (1,0), (1,1), (5,5)
SelectVertices == <<Vec(0, 0), Vec(10, 0), Vec(10, 10), Vec(50, 50)>>

\* most candidates handed to SelectNeighbors
MaxCandidates == 3

\* the candidate lists: vertex ids without repetition
CandidateLists ==
  {sq \in UNION {[1..n -> 0..(Len(SelectVertices) - 1)] : n \in 0..MaxCandidates} :
     \A i, j \in DOMAIN sq : i # j => sq[i] # sq[j]}

\* the arguments of SelectNeighbors(vec, vertex_ids, vertices, m, dist_fn),
\* vertices being SelectVertices
SelectInputs ==
  {Pending("select", [vec |-> vec, vertex_ids |-> vertex_ids, m |-> m,
                      dist_fn |-> dist_fn]) :
     vec \in {Vec(10, 0), Vec(20, 10)}, vertex_ids \in CandidateLists, m \in 1..2,
     dist_fn \in {L2Dist, InnerProduct}}

\* SelectNeighbors(vec, vertex_ids, vertices, m, dist_fn)
SelectNeighborsCall ==
  /\ index_type = "none"
  /\ fn_call.op = "select"
  /\ ~fn_call.done
  /\ fn_call' = [fn_call EXCEPT
                   !.done = TRUE,
                   !.result = SelectNeighbors(fn_call.args.vec, fn_call.args.vertex_ids,
                                              SelectVertices, fn_call.args.m,
                                              fn_call.args.dist_fn)]
  /\ UNCHANGED <<index_type, distance_fn_, ivf_vars, hnsw_vars, opt_vars,
               exec_vars>>

\* an HNSW index without vertices, created with m, ef_construction, ef_search
NewHnsw(m, ef_construction, ef_search, dist_fn) ==
  [vertices_ |-> <<>>, rids_ |-> <<>>, layers_ |-> <<NSW(dist_fn, m * m)>>, m_ |-> m,
   m_max_ |-> m, ef_construction_ |-> ef_construction, ef_search_ |-> ef_search,
   distance_fn_ |-> dist_fn, crashed |-> FALSE]

\* the vertex lists of the indexes SearchLayer is called on: two to four of
\* SelectVertices, in any order
SearchVertexLists ==
  {sq \in UNION {[1..n -> {SelectVertices[i] : i \in DOMAIN SelectVertices}] :
                   n \in 2..Len(SelectVertices)} :
     \A i, j \in DOMAIN sq : i # j => sq[i] # sq[j]}

\* the (m, ef_construction, ef_search) options of these indexes
SearchOptions == {<<2, 1, 1>>, <<2, 4, 1>>, <<3, 4, 1>>}

\* the indexes SearchLayer is called on: every vertex inserted at level 0
SearchIndexes ==
  {InsertAll(NewHnsw(o[1], o[2], o[3], L2Dist), WithRids(vs), [i \in DOMAIN vs |-> 0], 1) :
     vs \in SearchVertexLists, o \in SearchOptions}

\* the arguments of layers_[0].SearchLayer(base_vector, limit, entry_points)
SearchInputs ==
  UNION {{Pending("search", [idx |-> idx, base_vector |-> base_vector, limit |-> limit,
                             entry_points |-> <<entry>>]) :
            base_vector \in {Vec(10, 0), Vec(20, 10)}, limit \in 1..MaxLimit,
            entry \in 0..(Len(idx.vertices_) - 1)} :
         idx \in SearchIndexes}

\* NSW::SearchLayer(base_vector, limit, entry_points): result is what it
\* returns, run its queues and sets when the while loop has ended
SearchLayerCall ==
  /\ index_type = "none"
  /\ fn_call.op = "search"
  /\ ~fn_call.done
  /\ \E searched \in {SearchLayerRun(fn_call.args.idx.layers_[1], fn_call.args.idx.vertices_,
                                      fn_call.args.base_vector, fn_call.args.limit,
                                      fn_call.args.entry_points)} :
       fn_call' = [fn_call EXCEPT
                     !.done = TRUE,
                     !.result = [found |-> SearchLayer(fn_call.args.idx.layers_[1],
                                             fn_call.args.idx.vertices_,
                                             fn_call.args.base_vector, fn_call.args.limit,
                                             fn_call.args.entry_points),
                                 expanded |-> searched.expanded,
                                 visited |-> searched.visited]]
  /\ UNCHANGED <<index_type, distance_fn_, ivf_vars, hnsw_vars, opt_vars,
               exec_vars>>

\* the vertex lists of the indexes ScanVectorKey is called on
ScanVertexLists == {vs \in SearchVertexLists : Len(vs) <= 3}

\* the (m, ef_construction, ef_search) options of these indexes
ScanOptions == {<<2, 4, 1>>, <<2, 4, 3>>}

\* the indexes ScanVectorKey is called on: each vertex inserted at a level
\* from 0 to MaxLevel
ScanIndexes ==
  UNION {{InsertAll(NewHnsw(o[1], o[2], o[3], L2Dist), WithRids(vs), levels, 1) :
            levels \in [DOMAIN vs -> 0..MaxLevel]} :
         vs \in ScanVertexLists, o \in ScanOptions}

\* the arguments of ScanVectorKey(base_vector, limit) and the index it is
\* called on
ScanInputs ==
  {Pending("scan", [idx |-> idx, base_vector |-> base_vector, limit |-> limit]) :
     idx \in ScanIndexes, base_vector \in {Vec(10, 0), Vec(20, 10)}, limit \in 1..MaxLimit}

\* HNSWIndex::ScanVectorKey(base_vector, limit): result is the RIDs it
\* returns and the SearchLayer calls it has made
ScanVectorKeyCall ==
  /\ index_type = "none"
  /\ fn_call.op = "scan"
  /\ ~fn_call.done
  /\ \E this \in {fn_call.args.idx} :
       fn_call' = [fn_call EXCEPT
                     !.done = TRUE,
                     !.result =
                       [rids |-> HnswScanVectorKey(this, fn_call.args.base_vector,
                                                   fn_call.args.limit),
                        calls |-> ScanCalls(this, fn_call.args.base_vector,
                                            fn_call.args.limit, Len(this.layers_) - 1,
                                            <<DefaultEntryPoint(this.layers_[Len(this.layers_)])>>)]]
  /\ UNCHANGED <<index_type, distance_fn_, ivf_vars, hnsw_vars, opt_vars,
               exec_vars>>

\* most data vectors handed to FindCentroids
MaxData == 3

\* the arguments of FindCentroids(data, centroids, dist_fn) in the first
\* iteration of BuildIndex: centroids is a sample of data
CentroidsInputs ==
  UNION {UNION {{Pending("centroids",
                         [data |-> WithRids(vs),
                          centroids |-> [i \in 1..lists |-> vs[sample[i] + 1]],
                          int_of_inf |-> int_of_inf]) :
                   sample \in Samples(Len(vs), lists), int_of_inf \in IntOfInfOutcomes} :
                lists \in {l \in 1..2 : l <= Len(vs)}} :
         vs \in UNION {[1..n -> PointSet] : n \in 1..MaxData}}

\* FindCentroids(data, centroids, VectorExpressionType::L2Dist)
FindCentroidsCall ==
  /\ index_type = "none"
  /\ fn_call.op = "centroids"
  /\ ~fn_call.done
  /\ fn_call' = [fn_call EXCEPT
                   !.done = TRUE,
                   !.result = FindCentroids(fn_call.args.data, fn_call.args.centroids,
                                            L2Dist, fn_call.args.int_of_inf)]
  /\ UNCHANGED <<index_type, distance_fn_, ivf_vars, hnsw_vars, opt_vars,
               exec_vars>>

FnInputs ==
  DistanceInputs \cup SelectInputs \cup SearchInputs \cup ScanInputs \cup CentroidsInputs

\* the arguments of one call of a free function
InitFn ==
  /\ index_type = "none"
  /\ distance_fn_ = L2Dist
  /\ NoIVF
  /\ NoHNSW
  /\ NoOpt
  /\ NoExec
  /\ fn_call \in FnInputs

NextFn ==
  \/ Distance
  \/ SelectNeighborsCall
  \/ SearchLayerCall
  \/ ScanVectorKeyCall
  \/ FindCentroidsCall

SpecFn == InitFn /\ [][NextFn]_vars

(***************************************************************************)
(* SortExecutor and TopNExecutor                                           *)
(* (src/src/execution/sort_executor.cpp, topn_executor.cpp)                *)
(*                                                                         *)
(* The two executors are run over the same child and order-by list.  An    *)
(* executor is the record of its members: tuples is the std::vector,       *)
(* iter_ the number of elements the iterator has passed, limit TopN's      *)
(* counter; inits counts the calls of Init, emitted is the tuples Next has *)
(* given out and done says that a Next has returned false.                 *)
(***************************************************************************)
\* the tuples of the child: two columns of doubles, the first of which can
\* hold a NaN, as the distance of a vector to a query can be
TupleSet == {<<a, b>> : a \in {DInt(0), DInt(1), DNaN}, b \in {DInt(0), DInt(1)}}

\* most tuples of the child
MaxChild == 3

\* largest n of the TopN plan node
MaxN == 3

\* most calls of Init on one executor
MaxInits == 1

\* what the child executor emits: its tuples with the RIDs 0, 1, ...
ChildInputs ==
  {[i \in DOMAIN ts |-> [first |-> i - 1, second |-> ts[i]]] :
     ts \in UNION {[1..len -> TupleSet] : len \in 0..MaxChild}}

\* the order-by lists: one key, or two keys on the two columns
OrderByInputs ==
  {<<[type |-> t, expr |-> c]>> : t \in OrderByType, c \in 0..1}
    \cup {<<[type |-> t1, expr |-> c], [type |-> t2, expr |-> 1 - c]>> :
            t1 \in OrderByType, t2 \in OrderByType, c \in 0..1}

\* an executor after its constructor
NewExecutor(op) ==
  [op |-> op, tuples |-> <<>>, iter_ |-> 0, limit |-> 0, inits |-> 0, emitted |-> <<>>,
   done |-> FALSE]

InitExec ==
  /\ index_type = "none"
  /\ distance_fn_ = L2Dist
  /\ NoIVF
  /\ NoHNSW
  /\ NoOpt
  /\ NoFn
  /\ plan_ \in {[order_bys_ |-> o, n_ |-> n] : o \in OrderByInputs, n \in 0..MaxN}
  /\ child_ \in ChildInputs
  /\ topn_ = NewExecutor("topn")
  /\ sort_ = NewExecutor("sort")
  /\ ins_ = [op |-> "none"]

RECURSIVE TopNHeap(_, _, _, _)
\* TopNExecutor::Init's while loop over the child's tuples from the i-th on:
\* pq when the child is exhausted
TopNHeap(child, k, i, pq) ==
  IF i > Len(child) THEN pq
  ELSE Only({Only({TopNHeap(child, k, i + 1, kept) :
                   kept \in {IF Len(pushed) > k THEN PqPop(pushed, "order_by")
                             ELSE pushed}}) :
             pushed \in {PqPush(pq, child[i], "order_by")}})

\* TopNExecutor::Init()
TopNInit ==
  /\ topn_.op = "topn"
  /\ topn_.inits < MaxInits
  /\ \E pq \in {TopNHeap(child_, plan_.n_, 1, <<>>)} :
       topn_' = [topn_ EXCEPT !.tuples = @ \o PqDrain(pq, "order_by"),
                              !.iter_ = 0,
                              !.inits = @ + 1]
  /\ UNCHANGED <<plan_, child_, sort_, ins_, index_type, distance_fn_, ivf_vars, hnsw_vars,
                 opt_vars, fn_call>>

\* TopNExecutor::Next(tuple, rid); iter_ runs from tuples.rbegin()
TopNNext ==
  /\ topn_.op = "topn"
  /\ topn_.inits >= 1
  /\ topn_.limit <= MaxN
  /\ IF topn_.limit < plan_.n_ /\ topn_.iter_ # Len(topn_.tuples)
     THEN topn_' = [topn_ EXCEPT
                      !.limit = @ + 1,
                      !.emitted = Append(@, topn_.tuples[Len(topn_.tuples) - topn_.iter_]),
                      !.iter_ = @ + 1]
     ELSE topn_' = [topn_ EXCEPT !.limit = @ + 1, !.done = TRUE]
  /\ UNCHANGED <<plan_, child_, sort_, ins_, index_type, distance_fn_, ivf_vars, hnsw_vars,
                 opt_vars, fn_call>>

\* SortExecutor::Init()
SortInit ==
  /\ sort_.op = "sort"
  /\ sort_.inits < MaxInits
  /\ sort_' = [sort_ EXCEPT !.tuples = StdSort(@ \o child_, "order_by"),
                            !.iter_ = 0,
                            !.inits = @ + 1]
  /\ UNCHANGED <<plan_, child_, topn_, ins_, index_type, distance_fn_, ivf_vars, hnsw_vars,
                 opt_vars, fn_call>>

\* SortExecutor::Next(tuple, rid); a call after the one that returned false
\* returns false again and changes nothing
SortNext ==
  /\ sort_.op = "sort"
  /\ sort_.inits >= 1
  /\ ~sort_.done
  /\ IF sort_.iter_ # Len(sort_.tuples)
     THEN sort_' = [sort_ EXCEPT !.emitted = Append(@, sort_.tuples[sort_.iter_ + 1]),
                                 !.iter_ = @ + 1]
     ELSE sort_' = [sort_ EXCEPT !.done = TRUE]
  /\ UNCHANGED <<plan_, child_, topn_, ins_, index_type, distance_fn_, ivf_vars, hnsw_vars,
                 opt_vars, fn_call>>

NextExec == TopNInit \/ TopNNext \/ SortInit \/ SortNext

SpecExec == InitExec /\ [][NextExec]_vars

(***************************************************************************)
(* InsertExecutor (src/src/execution/insert_executor.cpp)                  *)
(*                                                                         *)
(* The executor inserts into table t1 (oid 0) of catalog_.  Its child is   *)
(* the sequence of tuples it emits and a cursor that Init sets to 0; the   *)
(* table heap is the sequence of the tuples inserted, and the RID it       *)
(* returns for a tuple is the tuple's position in it.  A vector index is   *)
(* the sequence of the (key, rid) pairs InsertVectorEntry was called with. *)
(***************************************************************************)
\* the tuples of the child: v1, v2, id
InsertTuples == {<<Vec(10, 0), Vec(0, 10), 1>>, <<Vec(10, 10), Vec(50, 50), 2>>}

\* most tuples of the child
MaxInsertChild == 2

\* most calls of InsertExecutor::Init
MaxInsertInits == 2

\* most calls of InsertExecutor::Next
MaxNextCalls == 4

\* the RID a ValuesExecutor child gives with a tuple: none
INVALID_RID == -1

\* GetValue(&schema, 0).GetVector() of a tuple
GetVector(tuple) == tuple[1]

\* InsertExecutor::InsertExecutor(exec_ctx, plan, child_executor), the plan's
\* table being table_oid and no index holding an entry
NewInsertExecutor(catalog, table_oid, child) ==
  [op |-> "insert", table_oid_ |-> table_oid, child |-> child, cursor |-> 0,
   table_heap_ |-> <<>>,
   index_ |-> [oid \in {catalog.indexes[i].index_oid_ : i \in DOMAIN catalog.indexes} |-> <<>>],
   emitted_ |-> FALSE, inits |-> 0, calls |-> 0, returned |-> "none", rid |-> INVALID_RID]

InitInsert ==
  /\ index_type = "none"
  /\ distance_fn_ = L2Dist
  /\ NoIVF
  /\ NoHNSW
  /\ NoFn
  /\ catalog_ \in Catalogs
  /\ vector_index_match_method_ = ""
  /\ opt_call = NoOptCall
  /\ plan_ = [order_bys_ |-> <<>>, n_ |-> 0]
  /\ child_ = <<>>
  /\ topn_ = [op |-> "none"]
  /\ sort_ = [op |-> "none"]
  /\ ins_ \in {NewInsertExecutor(catalog_, 0, child) :
                 child \in UNION {[1..n -> InsertTuples] : n \in 0..MaxInsertChild}}

\* InsertExecutor::Next's loop over table_indexes that skips the HNSW
\* indexes: the code that the step of the indexes with the table (C30) must
\* tell from the source
InsertIndexEntriesIvfOnly(index, table_indexes, i, key, rid) ==
  [oid \in DOMAIN index |->
     IF \E k \in DOMAIN table_indexes :
          /\ table_indexes[k].index_oid_ = oid
          /\ table_indexes[k].index_type_ = "VectorIVFFlatIndex"
     THEN Append(index[oid], [key |-> key, rid |-> rid])
     ELSE index[oid]]

RECURSIVE InsertIndexEntries(_, _, _, _, _)
\* InsertExecutor::Next's loop over table_indexes[i..]: the indexes afterwards
InsertIndexEntries(index, table_indexes, i, key, rid) ==
  IF i > Len(table_indexes) THEN index
  ELSE IF table_indexes[i].index_type_ \in {"VectorIVFFlatIndex", "VectorHNSWIndex"}
  THEN InsertIndexEntries([index EXCEPT ![table_indexes[i].index_oid_] =
                             Append(@, [key |-> key, rid |-> rid])],
                          table_indexes, i + 1, key, rid)
  ELSE InsertIndexEntries(index, table_indexes, i + 1, key, rid)

\* InsertExecutor::Init()
InsertInit ==
  /\ ins_.op = "insert"
  /\ ins_.inits < MaxInsertInits
  /\ ins_' = [ins_ EXCEPT !.cursor = 0, !.inits = @ + 1]
  /\ UNCHANGED <<plan_, child_, topn_, sort_, index_type, distance_fn_, ivf_vars, hnsw_vars,
                 opt_vars, fn_call>>

\* InsertExecutor::Next(tuple, rid); inserted says whether
\* table_heap_->InsertTuple returns a RID
InsertNext ==
  /\ ins_.op = "insert"
  /\ ins_.inits >= 1
  /\ ins_.calls < MaxNextCalls
  /\ \E inserted \in BOOLEAN :
       IF ins_.cursor < Len(ins_.child)
       THEN \E tuple \in {ins_.child[ins_.cursor + 1]} :
              IF inserted
              THEN \E inserted_rid \in {Len(ins_.table_heap_)} :
                     ins_' = [ins_ EXCEPT
                                !.cursor = @ + 1,
                                !.calls = @ + 1,
                                !.table_heap_ = Append(@, tuple),
                                !.index_ =
                                  InsertIndexEntries(@,
                                    GetTableIndexes(catalog_,
                                      GetTable(catalog_, ins_.table_oid_)[1].name_),
                                    1, GetVector(tuple), inserted_rid),
                                !.rid = inserted_rid,
                                !.returned = "true"]
              ELSE ins_' = [ins_ EXCEPT !.cursor = @ + 1, !.calls = @ + 1,
                                        !.rid = INVALID_RID, !.returned = "false"]
       ELSE ins_' = [ins_ EXCEPT !.calls = @ + 1, !.returned = "false"]
  /\ UNCHANGED <<plan_, child_, topn_, sort_, index_type, distance_fn_, ivf_vars, hnsw_vars,
                 opt_vars, fn_call>>

NextInsert == InsertInit \/ InsertNext

SpecInsert == InitInsert /\ [][NextInsert]_vars

(***************************************************************************)
(* Properties of the HNSW index                                            *)
(***************************************************************************)
Range(s) == {s[i] : i \in DOMAIN s}

Min(a, b) == IF a < b THEN a ELSE b

\* the index exists and no call on it has killed the process
HnswReady == index_type = "hnsw" /\ hnsw_status = "ready"

\* the adjacency list of vertex v in layer l (l = 1 is the code's layer 0)
Adj(l, v) == layers_[l].edges_[v]

\* the cap the degree of a vertex of layer l is held to
DegreeCap(l) == IF l = 1 THEN m_ * m_ ELSE m_

\* C1: after every InsertVectorEntry, whatever the inserts and the levels
\* drawn, no adjacency list of layer 0 is longer than m * m and none of a
\* layer above is longer than m.
C1_DegreeCap ==
  HnswReady =>
    \A l \in DOMAIN layers_ : \A v \in VertexIds : Len(Adj(l, v)) <= DegreeCap(l)

\* an insert has left, in layer 0 and in a layer above, a vertex u whose list
\* is at the cap and has lost v, which still lists u: u's list was cut
C1_Witness ==
  /\ HnswReady
  /\ hnsw_call.op = "insert"
  /\ \A l \in {1, 2} :
       /\ l \in DOMAIN layers_
       /\ \E u, v \in VertexIds :
            /\ u \in Range(Adj(l, v))
            /\ v \notin Range(Adj(l, u))
            /\ Len(Adj(l, u)) = DegreeCap(l)

\* C2: in every layer, after every insert, u is in the adjacency list of v
\* exactly when v is in the adjacency list of u, also after a list was cut.
C2_Symmetric ==
  HnswReady =>
    \A l \in DOMAIN layers_ : \A u, v \in VertexIds :
      (u \in Range(Adj(l, v))) <=> (v \in Range(Adj(l, u)))

\* C3: after any inserts, layer 0 holds every vertex ever inserted exactly
\* once, and every vertex of a layer above layer 0 is in the layer below it.
C3_ContainmentChain ==
  HnswReady =>
    /\ Len(layers_[1].in_vertices_) = Len(vertices_)
    /\ Range(layers_[1].in_vertices_) = {i - 1 : i \in DOMAIN vertices_}
    /\ \A l \in DOMAIN layers_ :
         l > 1 => Range(layers_[l].in_vertices_) \subseteq Range(layers_[l - 1].in_vertices_)

\* an insert has left two layers, the upper one with at least two vertices
\* and without at least one vertex of layer 0
C3_Witness ==
  /\ HnswReady
  /\ hnsw_call.op = "insert"
  /\ Len(layers_) >= 2
  /\ Len(layers_[2].in_vertices_) >= 2
  /\ Range(layers_[1].in_vertices_) \ Range(layers_[2].in_vertices_) # {}

\* the state after a scan of an index with a vertex
AfterHnswScan == HnswReady /\ hnsw_call.op = "scan" /\ Len(vertices_) >= 1

\* C5: a scan with limit k >= 1 of an index with n >= 1 points returns
\* exactly min(k, n) RIDs, whatever m >= 1, the inserts and the levels drawn.
C5_HnswScanCount ==
  (AfterHnswScan /\ hnsw_call.limit >= 1) =>
    Len(HnswScanResult) = Min(hnsw_call.limit, Len(vertices_))

\* C11 (HNSW part): a scan with limit 0 that returns, returns an empty list,
\* whatever the index holds and whatever the query.
C11_LimitZeroEmpty ==
  (HnswReady /\ hnsw_call.op = "scan" /\ hnsw_call.limit = 0) => HnswScanResult = <<>>

\* C13: a scan of an index into which nothing was inserted returns (an empty
\* list) without error.
C13_EmptyIndexScan ==
  (index_type = "hnsw" /\ hnsw_call.op = "scan" /\ vertices_ = <<>>) =>
    hnsw_status = "ready"

(***************************************************************************)
(* Properties of the IVFFlat index                                         *)
(***************************************************************************)
\* every (vector, rid) pair the buckets hold
StoredPairs == Concat(centroids_buckets_, 1)

\* the stored vector with this rid
VecOfRid(rid) == (CHOOSE p \in Range(StoredPairs) : p.rid = rid).vec

\* the distance of two vectors under the metric the index was created with
IndexDistance(a, b) == ComputeDistance(a, b, distance_fn_)

\* the state after a scan of an index whose buckets hold a pair
AfterIvfScan ==
  /\ index_type = "ivfflat"
  /\ ivf_status = "ready"
  /\ ivf_call.op = "scan"
  /\ StoredPairs # <<>>

\* the state after a BuildIndex that found |initial_data| >= lists
AfterIvfBuild ==
  /\ index_type = "ivfflat"
  /\ ivf_status = "ready"
  /\ ivf_call.op = "build"
  /\ Len(ivf_call.data) >= lists_

\* centroid i comes before centroid j when the centroids are ranked by their
\* L2 distance to q, the lower index first among equals
RankedBefore(i, j, q) ==
  \/ VLess(ComputeDistance(q, centroids_[i], L2Dist), ComputeDistance(q, centroids_[j], L2Dist))
  \/ /\ ~VLess(ComputeDistance(q, centroids_[j], L2Dist),
               ComputeDistance(q, centroids_[i], L2Dist))
     /\ i < j

\* the centroids a scan for q probes: the first probe_lists_ of the ranking
Probed(q) ==
  {j \in DOMAIN centroids_ :
     Cardinality({i \in DOMAIN centroids_ : RankedBefore(i, j, q)}) < probe_lists_}

RECURSIVE ProbedCount(_, _)
\* the number of pairs in the buckets b.. of the centroids probed for q
ProbedCount(q, b) ==
  IF b > Len(centroids_buckets_) THEN 0
  ELSE (IF b \in Probed(q) THEN Len(centroids_buckets_[b]) ELSE 0) + ProbedCount(q, b + 1)

\* C12: BuildIndex on fewer pairs than lists returns without error and leaves
\* the index without centroids and buckets, and every scan of that index
\* afterwards returns an empty list without error.
C12_SilentBuild ==
  /\ (index_type = "ivfflat" /\ ivf_call.op = "build" /\ Len(ivf_call.data) < lists_) =>
       /\ ivf_status = "ready"
       /\ centroids_ = <<>>
       /\ centroids_buckets_ = <<>>
  /\ (index_type = "ivfflat" /\ ivf_call.op = "scan" /\ centroids_ = <<>>) =>
       /\ ivf_status = "ready"
       /\ centroids_buckets_ = <<>>
       /\ ivf_call.result = <<>>

\* a scan with limit >= 1 right after a BuildIndex on fewer pairs than lists
C12_Witness ==
  /\ index_type = "ivfflat"
  /\ ivf_call.op = "scan"
  /\ ivf_call.limit >= 1
  /\ centroids_ = <<>>
  /\ lists_ = 2
  /\ ivf_inserted = 0
  /\ ivf_call.result = <<>>

\* C4 as stated: a scan with limit k of an index holding n >= 1 points
\* returns exactly min(k, n) RIDs for every 1 <= probe_lists <= lists.
C4_IvfScanCount ==
  AfterIvfScan => Len(ivf_call.result) = Min(ivf_call.limit, Len(StoredPairs))

\* C4, amended: a scan with limit k returns exactly min(k, c) RIDs, c being
\* the number of pairs in the buckets of the probe_lists centroids nearest to
\* the query by L2 distance; that is min(k, n) when probe_lists = lists.
C4_IvfScanCountProbed ==
  AfterIvfScan =>
    /\ Len(ivf_call.result) = Min(ivf_call.limit, ProbedCount(ivf_call.key, 1))
    /\ probe_lists_ = lists_ =>
         Len(ivf_call.result) = Min(ivf_call.limit, Len(StoredPairs))

\* a scan with probe_lists < lists asked for more than the probed bucket
\* holds, while the other bucket holds pairs too
C4_Witness ==
  /\ AfterIvfScan
  /\ probe_lists_ < lists_
  /\ ProbedCount(ivf_call.key, 1) < ivf_call.limit
  /\ ProbedCount(ivf_call.key, 1) < Len(StoredPairs)
  /\ ProbedCount(ivf_call.key, 1) >= 1
  /\ Len(ivf_call.result) = ProbedCount(ivf_call.key, 1)

\* the distance of the stored vector with this rid to the query of the scan
ScanDistance(rid) == IndexDistance(ivf_call.key, VecOfRid(rid))

\* C6: the RIDs one scan returns are in non-decreasing order of the distance
\* of their vectors to the query, under the metric the index was created with.
C6_ScanOrdered ==
  AfterIvfScan =>
    \A i, j \in DOMAIN ivf_call.result :
      i < j => ~VLess(ScanDistance(ivf_call.result[j]), ScanDistance(ivf_call.result[i]))

\* C7: with probe_lists = lists a scan of a built index returns the k stored
\* vectors nearest to the query under the index's own metric: min(k, n) RIDs,
\* none of them farther from the query than a stored vector it leaves out.
C7_ExactTopK ==
  (AfterIvfScan /\ probe_lists_ = lists_) =>
    /\ Len(ivf_call.result) = Min(ivf_call.limit, Len(StoredPairs))
    /\ \A r \in Range(ivf_call.result) :
         \A p \in Range(StoredPairs) :
           p.rid \notin Range(ivf_call.result) =>
             ~VLess(ScanDistance(p.rid), ScanDistance(r))

\* C8: after BuildIndex on |data| >= lists pairs the RIDs of the buckets are,
\* as a multiset, the RIDs of the input (which are distinct).
C8_BuildKeepsRids ==
  AfterIvfBuild =>
    /\ Len(StoredPairs) = Len(ivf_call.data)
    /\ {p.rid : p \in Range(StoredPairs)} = {p.rid : p \in Range(ivf_call.data)}

\* C9: after BuildIndex every pair lies in the bucket of a centroid than
\* which no final centroid is strictly nearer to the pair's vector.
C9_NearestBucket ==
  AfterIvfBuild =>
    \A b \in DOMAIN centroids_buckets_ : \A e \in DOMAIN centroids_buckets_[b] :
      \A c \in DOMAIN centroids_ :
        ~VLess(IndexDistance(centroids_buckets_[b][e].vec, centroids_[c]),
               IndexDistance(centroids_buckets_[b][e].vec, centroids_[b]))

\* C10: an InsertVectorEntry(key, rid) that returns on a built index appends
\* (key, rid) to the bucket of a centroid than which none is strictly nearer
\* to key, and leaves the centroids and every other bucket as they were.
C10_InsertFrame ==
  [][(/\ index_type = "ivfflat"
      /\ centroids_ # <<>>
      /\ ivf_inserted' = ivf_inserted + 1
      /\ ivf_status' = "ready")
     => /\ centroids_' = centroids_
        /\ \E b \in DOMAIN centroids_ :
             /\ \A c \in DOMAIN centroids_ :
                  ~VLess(IndexDistance(ivf_call'.key, centroids_[c]),
                         IndexDistance(ivf_call'.key, centroids_[b]))
             /\ centroids_buckets_' =
                  [centroids_buckets_ EXCEPT
                     ![b] = Append(@, [vec |-> ivf_call'.key, rid |-> ivf_call'.rid])]]_vars

(***************************************************************************)
(* Properties of the optimizer rule                                        *)
(***************************************************************************)
\* OptimizeAsVectorIndexScan has been called on opt_call.plan
AfterOptimize == index_type = "none" /\ opt_call.op = "optimize"

\* the SeqScan a TopN reads from, directly or through one Projection
ScanBelow(plan) ==
  LET child == plan.children_[1]
  IN IF child.type = "SeqScan" THEN <<child>>
     ELSE IF child.type = "Projection" /\ child.children_[1].type = "SeqScan"
     THEN <<child.children_[1]>>
     ELSE <<>>

\* a call to a distance function on a column reference and an array literal
\* of constants, in either order
IsDistanceCall(expr) ==
  /\ expr.kind = "Vector"
  /\ expr.expr_type_ \in VectorExpressionType
  /\ \E i \in 1..2 :
       /\ expr.children_[i].kind = "ColumnValue"
       /\ expr.children_[3 - i].kind = "Array"
       /\ \A c \in Range(expr.children_[3 - i].children_) : c.kind = "ConstantValue"

\* the column reference and the array literal of a distance call
DistanceColumn(expr) ==
  Only({c \in Range(expr.children_) : c.kind = "ColumnValue"}).val

DistanceArray(expr) == Only({c \in Range(expr.children_) : c.kind = "Array"})

\* the shape of section 4.D: TopN over [Projection over] SeqScan with one
\* ascending ordering by a distance call
MatchesShape(plan) ==
  /\ plan.type = "TopN"
  /\ ScanBelow(plan) # <<>>
  /\ Len(plan.order_bys_) = 1
  /\ plan.order_bys_[1].type \in {"ASC", "DEFAULT"}
  /\ IsDistanceCall(plan.order_bys_[1].expr)

\* the vector indexes of the scanned table whose key column is the column of
\* the distance call and whose metric is its distance function
MatchingIndexes(catalog, plan) ==
  LET scan == ScanBelow(plan)[1]
      expr == plan.order_bys_[1].expr
  IN {i \in Range(catalog.indexes) :
        /\ \E t \in Range(catalog.tables) :
             t.oid_ = scan.table_oid_ /\ t.name_ = i.table_name_
        /\ i.index_type_ \in {"VectorHNSWIndex", "VectorIVFFlatIndex"}
        /\ i.key_attrs_ = <<DistanceColumn(expr)>>
        /\ i.distance_fn_ = expr.expr_type_}

\* the matching indexes the session string allows
EligibleIndexes(catalog, method, plan) ==
  {i \in MatchingIndexes(catalog, plan) :
     \/ method \in {"", "default"}
     \/ method = "hnsw" /\ i.index_type_ = "VectorHNSWIndex"
     \/ method = "ivfflat" /\ i.index_type_ = "VectorIVFFlatIndex"}

\* the VectorIndexScan section 4.D synthesizes for the plan with index i
ScanWith(plan, i) ==
  LET scan == ScanBelow(plan)[1]
  IN VectorIndexScanPlanNode(scan.output_schema_, scan.table_oid_, scan.table_name_,
                             i.index_oid_, i.name_,
                             ArrayExpression(DistanceArray(plan.order_bys_[1].expr).children_),
                             plan.n_)

\* C14: a call on TopN(k, dist(col, array)) over Projection over SeqScan(T),
\* with a matching index that the session string allows, returns a Projection
\* with the original schema and expressions over one child, the
\* VectorIndexScan of T with the scan's schema, the oid and name of a matching
\* index, limit k and the array literal's constants as base_vector.
C14_RewriteShape ==
  (/\ AfterOptimize
   /\ MatchesShape(opt_call.plan)
   /\ opt_call.plan.children_[1].type = "Projection"
   /\ EligibleIndexes(catalog_, vector_index_match_method_, opt_call.plan) # {})
  => /\ opt_call.status = "returned"
     /\ opt_call.result.type = "Projection"
     /\ opt_call.result.output_schema_ = opt_call.plan.children_[1].output_schema_
     /\ opt_call.result.expressions_ = opt_call.plan.children_[1].expressions_
     /\ \E i \in EligibleIndexes(catalog_, vector_index_match_method_, opt_call.plan) :
          opt_call.result.children_ = <<ScanWith(opt_call.plan, i)>>

\* the VectorIndexScan nodes of a plan tree
RECURSIVE VectorIndexScans(_)
VectorIndexScans(plan) ==
  (IF plan.type = "VectorIndexScan" THEN {plan} ELSE {})
    \cup UNION {VectorIndexScans(c) : c \in Range(plan.children_)}

\* C15: when a call on a plan of the shape of section 4.D returns, every
\* VectorIndexScan of the result uses a vector index of the scanned table
\* whose key column is the column of the distance call and whose metric is
\* the distance function of the ORDER BY; with no such index the result is
\* the input plan.
C15_IndexMatches ==
  (AfterOptimize /\ opt_call.status = "returned" /\ MatchesShape(opt_call.plan))
  => /\ \A s \in VectorIndexScans(opt_call.result) :
          \E i \in MatchingIndexes(catalog_, opt_call.plan) :
            s.index_oid_ = i.index_oid_
     /\ MatchingIndexes(catalog_, opt_call.plan) = {} => opt_call.result = opt_call.plan

\* the ordering section 4.D asks for: one entry, ascending (or the planner's
\* default), a distance call on a column reference and an array literal
OrderingMatches(plan) ==
  /\ Len(plan.order_bys_) = 1
  /\ plan.order_bys_[1].type \in {"ASC", "DEFAULT"}
  /\ IsDistanceCall(plan.order_bys_[1].expr)

\* C16: a call on a TopN whose ordering is not a single ascending distance
\* call (a DESC order, several entries, no distance call) that returns,
\* returns the input plan.
C16_OrderingRequired ==
  (/\ AfterOptimize
   /\ opt_call.status = "returned"
   /\ opt_call.plan.type = "TopN"
   /\ ~OrderingMatches(opt_call.plan))
  => opt_call.result = opt_call.plan

\* C17: with vector_index_match_method = "none" every call, on every plan and
\* every catalog, returns its input plan.
C17_NoneNeverRewrites ==
  (AfterOptimize /\ vector_index_match_method_ = "none")
  => opt_call.status = "returned" /\ opt_call.result = opt_call.plan

\* the matching indexes the session string allows, in catalog order
EligibleInOrder(catalog, method, plan) ==
  SelectSeq(catalog.indexes,
            LAMBDA i : i \in EligibleIndexes(catalog, method, plan))

\* C18: when a call on a plan of the shape of section 4.D returns, the result
\* scans the first matching index in catalog order for "" and "default", the
\* first matching HNSW index for "hnsw" and the first matching IVFFlat index
\* for "ivfflat", and is the input plan when there is no such index.
C18_SelectionByMethod ==
  (/\ AfterOptimize
   /\ opt_call.status = "returned"
   /\ MatchesShape(opt_call.plan)
   /\ vector_index_match_method_ \in {"", "default", "hnsw", "ivfflat"})
  => LET eligible == EligibleInOrder(catalog_, vector_index_match_method_, opt_call.plan)
     IN IF eligible = <<>>
        THEN opt_call.result = opt_call.plan
        ELSE /\ VectorIndexScans(opt_call.result) # {}
             /\ \A s \in VectorIndexScans(opt_call.result) :
                  s.index_oid_ = eligible[1].index_oid_ /\ s.index_name_ = eligible[1].name_

\* C19: when a call on a Limit, Filter or Projection whose child is a TopN of
\* the shape of section 4.D with an index the session string allows returns,
\* the result keeps the root node and holds a VectorIndexScan in place of the
\* child's sequential scan.
C19_BottomUp ==
  (/\ AfterOptimize
   /\ opt_call.status = "returned"
   /\ opt_call.plan.type \in {"Limit", "Filter", "Projection"}
   /\ MatchesShape(opt_call.plan.children_[1])
   /\ EligibleIndexes(catalog_, vector_index_match_method_, opt_call.plan.children_[1]) # {})
  => /\ opt_call.result.type = opt_call.plan.type
     /\ VectorIndexScans(opt_call.result) # {}

\* the plan is not of the shape of section 4.D, or no index that the session
\* string allows matches it
Mismatch(catalog, method, plan) ==
  \/ ~MatchesShape(plan)
  \/ EligibleIndexes(catalog, method, plan) = {}

\* C20: every call returns, without an out-of-range read, and a call on a
\* plan that does not match returns the input plan.
C20_NeverFails ==
  AfterOptimize
  => /\ opt_call.status = "returned"
     /\ Mismatch(catalog_, vector_index_match_method_, opt_call.plan)
          => opt_call.result = opt_call.plan

\* C21: a call on the plan that a first call returned, with the same catalog
\* and session string, returns that plan again.
C21_Idempotent ==
  (index_type = "none" /\ opt_call.op = "again")
  => opt_call.status = "returned" /\ opt_call.result = opt_call.plan

(***************************************************************************)
(* Properties of the distance kernel                                       *)
(***************************************************************************)
\* every component of the vector is zero
ZeroNorm(v) == \A i \in DOMAIN v : v[i].n = 0

\* the distance value is the double 1.0
VIsOne(v) ==
  /\ ~VIsNaN(v)
  /\ \/ v.k = "sq" /\ v.n = 1 /\ v.d = 1
     \/ v.k = "om" /\ v.n = 0 /\ v.d = 1

\* C22: ComputeDistance with CosineSimilarity returns 1.0 whenever the left
\* or the right vector has only zero components.
C22_CosineZeroNorm ==
  (/\ fn_call.op = "distance"
   /\ fn_call.done
   /\ fn_call.args.dist_fn = CosineSimilarity
   /\ ZeroNorm(fn_call.args.left) \/ ZeroNorm(fn_call.args.right))
  => VIsOne(fn_call.result)

(***************************************************************************)
(* Properties of SelectNeighbors and SearchLayer                           *)
(***************************************************************************)
\* the distance from the call's vec to vertex id
SelectDistance(id) ==
  ComputeDistance(fn_call.args.vec, SelectVertices[id + 1], fn_call.args.dist_fn)

\* C23: SelectNeighbors returns min(m, |candidates|) distinct candidates, and
\* no candidate it leaves out is strictly nearer to vec than one it returns.
C23_SelectNearest ==
  (fn_call.op = "select" /\ fn_call.done)
  => /\ Len(fn_call.result) = Min(fn_call.args.m, Len(fn_call.args.vertex_ids))
     /\ \A i, j \in DOMAIN fn_call.result : i # j => fn_call.result[i] # fn_call.result[j]
     /\ Range(fn_call.result) \subseteq Range(fn_call.args.vertex_ids)
     /\ \A out \in Range(fn_call.args.vertex_ids) \ Range(fn_call.result) :
          \A kept \in Range(fn_call.result) :
            ~VLess(SelectDistance(out), SelectDistance(kept))
\* the distance from the search's base_vector to vertex id
SearchDistance(id) ==
  ComputeDistance(fn_call.args.base_vector, fn_call.args.idx.vertices_[id + 1],
                  fn_call.args.idx.distance_fn_)

\* C24: SearchLayer expands the candidate nearest to the query first, and
\* every neighbour of a candidate it has expanded has been visited, whatever
\* the candidate's degree.
C24_ExpandsEveryNeighbour ==
  (fn_call.op = "search" /\ fn_call.done)
  => \A k \in DOMAIN fn_call.result.expanded :
       \E queue \in {fn_call.result.expanded[k]} :
         /\ \A j \in DOMAIN queue : ~VLess(SearchDistance(queue[j]), SearchDistance(queue[1]))
         /\ Range(fn_call.args.idx.layers_[1].edges_[queue[1]]) \subseteq fn_call.result.visited
\* the larger of two numbers
Max(a, b) == IF a > b THEN a ELSE b

\* C25: ScanVectorKey searches every layer above layer 0 with ef = 1 from a
\* single entry point, searches layer 0 with ef = max(ef_search, limit), and
\* returns at most limit RIDs.
C25_ScanDescent ==
  (fn_call.op = "scan" /\ fn_call.done)
  => /\ \A k \in DOMAIN fn_call.result.calls :
          \E call \in {fn_call.result.calls[k]} :
            IF call.layer > 0
            THEN call.limit = 1 /\ Len(call.entry_points) = 1
            ELSE call.limit = Max(fn_call.args.idx.ef_search_, fn_call.args.limit)
     /\ Len(fn_call.result.rids) <= fn_call.args.limit
(***************************************************************************)
(* Properties of the HNSW insert's frame                                   *)
(***************************************************************************)
\* this step is an InsertVectorEntry that returns, with a drawn level >= 0
InsertStep ==
  /\ index_type = "hnsw"
  /\ hnsw_status' = "ready"
  /\ hnsw_call'.op = "insert"
  /\ Len(vertices_') = Len(vertices_) + 1
  /\ hnsw_call'.level >= 0

\* what C26 says of an insert of vertex id at level t into an index whose
\* layers were before and are after
InsertFrame(before, after, id, t, first) ==
  /\ Len(after) = Max(Len(before), t + 1)
  /\ \A l \in DOMAIN before :
       IF l - 1 > t
       THEN /\ after[l].in_vertices_ = before[l].in_vertices_
            /\ after[l].edges_ = before[l].edges_
       ELSE /\ after[l].in_vertices_ = Append(before[l].in_vertices_, id)
            /\ first \/ after[l].edges_[id] # <<>>
  /\ \A l \in DOMAIN after \ DOMAIN before :
       /\ after[l].in_vertices_ = <<id>>
       /\ \A v \in VertexIds : after[l].edges_[v] = <<>>

\* C26: an insert with target level t leaves every layer above t as it was,
\* adds the new vertex, with edges, to the layers 0..min(t, top) and to no
\* other existing layer, and extends the stack up to t with layers that hold
\* the new vertex alone and no edge.
C26_InsertFrame ==
  [][InsertStep => InsertFrame(layers_, layers_', Len(vertices_), hnsw_call'.level,
                               vertices_ = <<>>)]_vars

\* an insert at level 0 has left alone a layer 1 that holds two or more
\* vertices, not the new one, which has edges in layer 0
C26_Witness ==
  /\ HnswReady
  /\ hnsw_call.op = "insert"
  /\ hnsw_call.level = 0
  /\ Len(layers_) = 2
  /\ Len(layers_[2].in_vertices_) >= 2
  /\ Len(vertices_) - 1 \notin Range(layers_[2].in_vertices_)
  /\ Adj(1, Len(vertices_) - 1) # <<>>
(***************************************************************************)
(* Properties of FindCentroids and FindCentroid                            *)
(***************************************************************************)
RECURSIVE SumOf(_, _, _)
\* the sum of the vectors data[k].vec for the k of ks, from the vector zero
SumOf(data, ks, zero) ==
  IF ks = {} THEN zero
  ELSE Only({VectorAdd(SumOf(data, ks \ {k}, zero), data[k].vec) :
             k \in {CHOOSE x \in ks : \A y \in ks : x >= y}})

\* centroid i of centroids is a nearest one to vec: none is strictly nearer
IsNearest(vec, centroids, i) ==
  \A j \in DOMAIN centroids :
    ~VLess(ComputeDistance(vec, centroids[j], L2Dist),
           ComputeDistance(vec, centroids[i], L2Dist))

\* the assignments of the data vectors to a nearest centroid each
NearestAssignments(data, centroids) ==
  {a \in [DOMAIN data -> DOMAIN centroids] :
     \A k \in DOMAIN data : IsNearest(data[k].vec, centroids, a[k])}

\* the centroids one Lloyd iteration gives under the assignment a
LloydStep(data, centroids, a) ==
  [i \in DOMAIN centroids |->
     Only({IF ks = {} THEN centroids[i]
           ELSE VectorScalarDiv(SumOf(data, ks, Vec(0, 0)), Cardinality(ks)) :
           ks \in {{k \in DOMAIN data : a[k] = i}}})]

\* C27: FindCentroids makes every centroid, the first included, the mean of
\* the data vectors whose nearest current centroid it is, and leaves a
\* centroid without such a vector as it was.
C27_LloydStep ==
  (fn_call.op = "centroids" /\ fn_call.done)
  => /\ ~fn_call.result.oob
     /\ \E a \in NearestAssignments(fn_call.args.data, fn_call.args.centroids) :
          fn_call.result.res = LloydStep(fn_call.args.data, fn_call.args.centroids, a)
\* C28: every centroid and bucket index BuildIndex and InsertVectorEntry use
\* is in [0, lists), so neither ever ends in the death of the process, which
\* in this index only an index out of that range brings about.
C28_IndexInRange ==
  (index_type = "ivfflat" /\ ivf_call.op \in {"build", "insert"}) => ivf_status # "crashed"
(***************************************************************************)
(* Properties of the executors                                             *)
(***************************************************************************)
\* the order-by key values of the (rid, tuple) pairs of a sequence
KeysOf(pairs) ==
  [i \in DOMAIN pairs |->
     [k \in DOMAIN plan_.order_bys_ |-> Evaluate(plan_.order_bys_[k].expr, pairs[i].second)]]

\* both executors were initialised once and have emitted all they emit
BothDone ==
  /\ topn_.op = "topn"
  /\ topn_.inits = 1
  /\ sort_.inits = 1
  /\ topn_.done
  /\ sort_.done

\* C29: after one Init, the order-by keys TopNExecutor emits until Next
\* returns false are the first min(n, |child|) keys SortExecutor emits over
\* the same child and order-by list.
C29_TopNRefinesSortLimit ==
  BothDone =>
    KeysOf(topn_.emitted) =
      SubSeq(KeysOf(sort_.emitted), 1, Min(plan_.n_, Len(child_)))
\* the vector indexes of the executor's table
TargetVectorIndexes ==
  {catalog_.indexes[i].index_oid_ : i \in
     {k \in DOMAIN catalog_.indexes :
        /\ catalog_.indexes[k].table_name_ = GetTable(catalog_, ins_.table_oid_)[1].name_
        /\ catalog_.indexes[k].index_type_ \in {"VectorIVFFlatIndex", "VectorHNSWIndex"}}}

\* this step is a call of InsertExecutor::Next
InsertNextStep == ins_.op = "insert" /\ ins_'.calls = ins_.calls + 1

\* C30: a Next that returns true has taken one tuple from the child, put it
\* into the table heap and called InsertVectorEntry once, with the RID the
\* heap returned, on every IVFFlat and HNSW index of the table; a Next that
\* returns false leaves every index as it was.
C30_IndexesInStep ==
  [][InsertNextStep =>
       IF ins_'.returned = "true"
       THEN /\ ins_'.cursor = ins_.cursor + 1
            /\ ins_'.table_heap_ = Append(ins_.table_heap_, ins_.child[ins_.cursor + 1])
            /\ ins_'.rid = Len(ins_'.table_heap_) - 1
            /\ \A oid \in TargetVectorIndexes :
                 /\ Len(ins_'.index_[oid]) = Len(ins_.index_[oid]) + 1
                 /\ SubSeq(ins_'.index_[oid], 1, Len(ins_.index_[oid])) = ins_.index_[oid]
                 /\ ins_'.index_[oid][Len(ins_'.index_[oid])].rid = ins_'.rid
       ELSE ins_'.index_ = ins_.index_]_vars

\* two tuples were inserted into a table with an IVFFlat and an HNSW index,
\* which were called with the RIDs 0 and 1, and a Next has returned false
C30_Witness ==
  /\ ins_.op = "insert"
  /\ ins_.returned = "false"
  /\ Len(ins_.table_heap_) = 2
  /\ {catalog_.indexes[i].index_type_ : i \in DOMAIN catalog_.indexes}
       = {"VectorIVFFlatIndex", "VectorHNSWIndex"}
  /\ Cardinality(TargetVectorIndexes) = 2
  /\ \A oid \in TargetVectorIndexes :
       /\ Len(ins_.index_[oid]) = 2
       /\ ins_.index_[oid][1].rid = 0
       /\ ins_.index_[oid][2].rid = 1

=============================================================================
